---- MODULE Spec2Model ----
(***************************************************************************)
(* Model of the fit session of Fit.py (class Fit, HEAD side of the file):  *)
(* Fit.fit, Fit.find_reg_param and the parameter-search strategies chi2,   *)
(* gcv, manual and prompt.                                                 *)
(*                                                                         *)
(* Numbers.  The control flow of the search only looks at the sign of the  *)
(* objective, so chi-squared values are integers in tenths (chi2 = 0.7 is  *)
(* 7) and the target nu = N*sf is N*sf10 with sf10 in 6..10.  A float that *)
(* may be NaN is the record [nan, v].  A regularization parameter is a     *)
(* symbolic record: zero, NaN, or 10^a for some a in [lo, hi].             *)
(*                                                                         *)
(* Environment.  What scipy computes is an input of the model: the         *)
(* chi-squared of the solved fit as a function of log10 of the parameter   *)
(* (a "curve", fixed for one record and one kind), the points at which the *)
(* root-finder and the minimizer evaluate the objective, and whether they  *)
(* converge.                                                               *)
(*                                                                         *)
(* Units.  Parts of the program are also modelled on their own, each with  *)
(* its own specification over a frame variable: Fit.eval_C on integer      *)
(* matrices (SpecSolve, ec), Model.basis_numbers (SpecBasis, bn),          *)
(* Fit.get_data with the filter of Fit.fit on the arrays of a data file    *)
(* (SpecData, gd), the chi2 search of a single target (SpecSweep, sw), the *)
(* arrays a session hands to its calls of eval_C (SpecShare, sh),          *)
(* Model.transform_coord (SpecCoord, tc) and Fit.gcvobjfunct on integer    *)
(* matrices (SpecGcv, gv).                                                 *)
(***************************************************************************)
EXTENDS Integers, Sequences, FiniteSets, TLC

\* ------------------------------------------------------------------ bounds
MaxRecords == 2
MaxPoints == 2
MaxEvals == 2
nbasis == 2
MaxMaxk == 4
MaxMaxl == 3
MaxCalls == 3

\* ------------------------------------------------------- program constants
\* Fit.chi2: "if alpha < -100."
AlphaLimit == 100
\* Fit.gcv: "alpha0 = -20."
GcvAlpha0 == 20
\* the five arguments of reg_methods[method](A,b,W,reg_matrices,rl)
CallArgs == 5
\* Fit.manual: lam = 1.e-28, kappa = 1.e-23
LamExp == 28
KappaExp == 23

\* Fit.chi2: scale_factors = [0.6,0.7,0.8,0.9,1.0], in tenths
scale_factors == <<6, 7, 8, 9, 10>>

\* kinds a configuration may name; the two the sources mention
Kinds == {"curvature", "0thorder"}
Methods == {"chi2", "gcv", "manual", "prompt"}

\* positional parameters (after self) of each strategy's def
StrategyArity(method) ==
    CASE method = "chi2" -> 5
      [] method = "gcv" -> 5
      [] method = "manual" -> 7
      [] method = "prompt" -> 7

\* ------------------------------------------------------------------ floats
NaN == [nan |-> TRUE, v |-> 0]
Fin(x) == [nan |-> FALSE, v |-> x]
\* a < 0 on floats: False when a is NaN
Lt0(a) == ~a.nan /\ a.v < 0
\* a*b > 0 on floats: False when either is NaN
ProdPos(a, b) == ~a.nan /\ ~b.nan /\ a.v * b.v > 0
\* a - n
Minus(a, n) == IF a.nan THEN NaN ELSE Fin(a.v - n)

\* --------------------------------------------------------------- parameters
ParamZero == [t |-> "zero", lo |-> 0, hi |-> 0]
ParamNaN == [t |-> "nan", lo |-> 0, hi |-> 0]
\* np.power(10., a) for an a in [lo, hi]; never zero and never NaN for finite a
Pow10In(lo, hi) == [t |-> "pow10", lo |-> lo, hi |-> hi]
Pow10(a) == Pow10In(a, a)
IsNaN(p) == p.t = "nan"

Range(s) == {s[i] : i \in 1..Len(s)}
\* duplicate-free non-empty lists of kinds (each kind configured once)
RegLists == {s \in UNION {[1..n -> Kinds] : n \in 1..Cardinality(Kinds)} :
                Cardinality(Range(s)) = Len(s)}

\* ------------------------------------------------------------ environment
\* chi-squared (tenths) of the solved fit of one record, as a function of
\* alpha = log10 of one kind's parameter with every other parameter zero:
\* hi for alpha > knee, lo for alpha <= knee.
Flat(h) == [hi |-> h, lo |-> h, knee |-> 0]
Step(h, l, k) == [hi |-> h, lo |-> l, knee |-> k]
Curves ==
    {Flat(Fin(0)), Flat(Fin(7)), Flat(Fin(25)), Flat(NaN),
     Step(Fin(25), Fin(0), -1), Step(Fin(25), Fin(0), -AlphaLimit),
     Step(Fin(25), Fin(0), -AlphaLimit - 1), Step(Fin(25), NaN, -1),
     Step(Fin(25), Fin(7), -1)}
CurveAt(c, a) == IF a > c.knee THEN c.hi ELSE c.lo
\* a record without samples has the empty sum as its chi-squared
CurvesFor(n) == IF n = 0 THEN {Flat(Fin(0))} ELSE Curves

\* the abstract entries of a solved coefficient vector, covariance or chi2
NanVec == [i \in 1..nbasis |-> "nan"]
NanMat == [i \in 1..nbasis |-> [j \in 1..nbasis |-> "nan"]]
ConstVec(x) == [i \in 1..nbasis |-> x]
ConstMat(x) == [i \in 1..nbasis |-> [j \in 1..nbasis |-> x]]

VARIABLES
    regularization_list,  \* self.regularization_list
    reg_method,           \* self.reg_method
    supported,            \* keys of self.model.eval_reg_matricies
    pc,                   \* position in Fit.fit
    exc,                  \* the exception that left Fit.fit, or "none"
    reg_matricies,        \* kinds whose matrix has been computed
    ri,                   \* index of the loop over regularization_list in fit
    dataRead,             \* get_data has returned
    utime,                \* record ids of the (time-filtered) timestamp array
    npoints,              \* points per record
    rec,                  \* number of records taken from zip(utime, value, error)
    N,                    \* len(b): samples of the current record after Filter
    reg_params,           \* dictionary built by find_reg_param
    ki,                   \* index of the loop over regularization_list in find_reg_param
    calls,                \* strategy invocations of this find_reg_param call
    curve,                \* chi2 of this record's fit for the kind being searched
    sfi, alpha, alpha0, val, val0, bracket,   \* locals of Fit.chi2
    evals,                \* objective evaluations of the current strategy call
    solverEvals,          \* those made by brentq or minimize
    lastEval,             \* arguments and dictionary of the last objective evaluation
    tried,                \* outcome of each target of the current chi2 call
    earlyAt,              \* evals when chi2(0)-nu < 0 was seen, or 0
    Coeffs, Covariance, chi_sq,   \* the result lists of Fit.fit
    origin,               \* record id each appended slot was computed from
    path,                 \* "placeholder" or "solved", per appended slot
    time,                 \* self.time
    ec,                   \* the frame of a call of Fit.eval_C
    bn,                   \* the frame of a call of Model.basis_numbers
    gd,                   \* the arrays of Fit.get_data and of the filter of Fit.fit
    sw,                   \* outcomes of the chi2 search of one target, per target
    sh,                   \* the arrays one session shares between its calls
    tc,                   \* a Model object and its calls of transform_coord
    gv                    \* the frame of a call of Fit.gcvobjfunct

cfg == <<regularization_list, reg_method, supported>>
data == <<dataRead, utime, npoints>>
chi == <<curve, sfi, alpha, alpha0, val, val0, bracket, tried, earlyAt>>
ev == <<evals, solverEvals, lastEval>>
results == <<Coeffs, Covariance, chi_sq, origin, path>>
units == <<ec, bn, gd, sw, sh, tc, gv>>
vars == <<units, cfg, pc, exc, reg_matricies, ri, data, rec, N, reg_params, ki, calls,
          chi, ev, results, time>>

\* no call of the unit is in progress
Idle == [pc |-> "idle"]

NoEval == [reg |-> "", alpha |-> 0, nu |-> 0, val |-> Fin(0), params |-> <<>>]

Init ==
    /\ regularization_list \in RegLists
    /\ reg_method \in Methods
    /\ supported \in SUBSET Kinds
    /\ pc = "regs"
    /\ exc = "none"
    /\ reg_matricies = {}
    /\ ri = 1
    /\ dataRead = FALSE
    /\ utime = <<>>
    /\ npoints = 0
    /\ rec = 0
    /\ N = 0
    /\ reg_params = <<>>
    /\ ki = 1
    /\ calls = <<>>
    /\ curve = Flat(Fin(0))
    /\ sfi = 1 /\ alpha = 0 /\ alpha0 = 0 /\ val = Fin(0) /\ val0 = Fin(0)
    /\ bracket = FALSE
    /\ tried = <<>>
    /\ earlyAt = 0
    /\ evals = 0 /\ solverEvals = 0 /\ lastEval = NoEval
    /\ Coeffs = <<>> /\ Covariance = <<>> /\ chi_sq = <<>>
    /\ origin = <<>> /\ path = <<>>
    /\ time = <<>>
    /\ ec = Idle /\ bn = Idle /\ gd = Idle /\ sw = Idle
    /\ sh = Idle /\ tc = Idle /\ gv = Idle

\* ------------------------------------------------------------ Fit.fit: Init
\* the handler warns about the unsupported kind and goes on
EvalRegMatrixWarnOnly ==
    /\ pc = "regs"
    /\ ri <= Len(regularization_list)
    /\ reg_matricies' = reg_matricies \cup ({regularization_list[ri]} \cap supported)
    /\ ri' = ri + 1
    /\ pc' = IF ri = Len(regularization_list) THEN "read" ELSE "regs"
    /\ UNCHANGED <<units, cfg, exc, data, rec, N, reg_params, ki, calls, chi, ev, results, time>>

\* one iteration of "for reg in self.regularization_list" (try/except KeyError)
EvalRegMatrix ==
    /\ pc = "regs"
    /\ ri <= Len(regularization_list)
    /\ IF regularization_list[ri] \in supported
       THEN /\ reg_matricies' = reg_matricies \cup {regularization_list[ri]}
            /\ ri' = ri + 1
            /\ pc' = IF ri = Len(regularization_list) THEN "read" ELSE "regs"
            /\ exc' = exc
       ELSE /\ pc' = "raised"
            /\ exc' = "KeyError"
            /\ UNCHANGED <<reg_matricies, ri>>
    /\ UNCHANGED <<units, cfg, data, rec, N, reg_params, ki, calls, chi, ev, results, time>>

\* the ids, in order, of the records 1..n that lie in the window
RECURSIVE Filtered(_, _)
Filtered(n, window) ==
    IF n = 0 THEN <<>>
    ELSE IF n \in window THEN Append(Filtered(n - 1, window), n)
         ELSE Filtered(n - 1, window)

\* get_data, compute_hull and the starttime/endtime filter
GetData ==
    /\ pc = "read"
    /\ \E nraw \in 0..MaxRecords, np \in 1..MaxPoints, given \in BOOLEAN :
         \E window \in SUBSET (1..nraw) :
           /\ utime' = IF given THEN Filtered(nraw, window)
                       ELSE Filtered(nraw, 1..nraw)
           /\ npoints' = np
    /\ dataRead' = TRUE
    /\ pc' = "loop"
    /\ UNCHANGED <<units, cfg, exc, reg_matricies, ri, rec, N, reg_params, ki, calls,
                   chi, ev, results, time>>

\* ------------------------------------------------- Fit.fit: the record loop
\* Filter: the next record of zip(utime, value, error); finite[i] is
\* np.isfinite(ne0)[i]; b, W and A get one row per finite value.  Then the
\* entry of find_reg_param.
Filter ==
    /\ pc = "loop"
    /\ rec < Len(utime)
    /\ rec' = rec + 1
    /\ \E finite \in [1..npoints -> BOOLEAN] :
         N' = Cardinality({i \in 1..npoints : finite[i]})
    /\ reg_params' = <<>>
    /\ ki' = 1
    /\ calls' = <<>>
    /\ pc' = "search"
    /\ UNCHANGED <<units, cfg, exc, reg_matricies, ri, data, chi, ev, results, time>>

\* the kind of the current iteration of find_reg_param's loop
rl == regularization_list[ki]

Put(rp, k, v) == [x \in (DOMAIN rp) \cup {k} |-> IF x = k THEN v ELSE rp[x]]

\* "reg_params[rl] = reg_methods[method](...)" completed normally
TryAssign(rp, k, v) == Put(rp, k, v)

\* the handler gives up on every parameter found so far
ExceptValueErrorAll(rp, k) == [x \in (DOMAIN rp) \cup {k} |-> ParamNaN]

\* "except ValueError: ... reg_params[rl] = np.nan"
ExceptValueError(rp, k) == Put(rp, k, ParamNaN)

ValueErrorOut == [t |-> "ValueError", lo |-> 0, hi |-> 0]

\* the strategy returned v to find_reg_param
Returned(v) ==
    /\ reg_params' = TryAssign(reg_params, rl, v)
    /\ calls' = Append(calls, [kind |-> rl, out |-> v])
    /\ ki' = ki + 1
    /\ pc' = "search"

\* the strategy raised ValueError, caught by find_reg_param
Caught ==
    /\ reg_params' = ExceptValueError(reg_params, rl)
    /\ calls' = Append(calls, [kind |-> rl, out |-> ValueErrorOut])
    /\ ki' = ki + 1
    /\ pc' = "search"

\* an exception no handler of Fit.fit catches
Propagate(e) ==
    /\ pc' = "raised"
    /\ exc' = e

ResetChi ==
    /\ curve' = Flat(Fin(0))
    /\ sfi' = 1 /\ alpha' = 0 /\ alpha0' = 0 /\ val' = Fin(0) /\ val0' = Fin(0)
    /\ bracket' = FALSE
    /\ tried' = <<>>
    /\ earlyAt' = 0

ResetEv == evals' = 0 /\ solverEvals' = 0 /\ lastEval' = NoEval

\* find_reg_param calls reg_methods['chi2']: Fit.chi2 up to its for loop
CallChi2 ==
    /\ pc = "search"
    /\ ki <= Len(regularization_list)
    /\ reg_method = "chi2"
    /\ curve' \in CurvesFor(N)
    /\ sfi' = 1 /\ alpha' = 0 /\ alpha0' = 0 /\ val' = Fin(0) /\ val0' = Fin(0)
    /\ bracket' = FALSE
    /\ tried' = <<>>
    /\ earlyAt' = 0
    /\ ResetEv
    /\ pc' = "chi2for"
    /\ UNCHANGED <<units, cfg, exc, reg_matricies, ri, data, rec, N, reg_params, ki,
                   calls, results, time>>

\* the other kinds keep the values already found for them
ObjRegParamsKeep(a, reg) ==
    [k \in Range(regularization_list) |->
        IF k = reg THEN Pow10(a)
        ELSE IF k \in DOMAIN reg_params THEN reg_params[k] ELSE ParamZero]

\* chi2objfunct: the dictionary it builds from alpha and reg
ObjRegParams(a, reg) ==
    [k \in Range(regularization_list) |-> IF k = reg THEN Pow10(a) ELSE ParamZero]

\* chi2objfunct: eval_C and the weighted sum of squared residuals; the sum
\* over no samples is 0
Chi2Sum(rp, reg) == IF N = 0 THEN Fin(0) ELSE CurveAt(curve, rp[reg].lo)

\* chi2objfunct: chi^2 - nu
chi2objfunct(a, n, reg) == Minus(Chi2Sum(ObjRegParams(a, reg), reg), n)

\* "nu = N*sf", in tenths
nu == N * scale_factors[sfi]

\* the early exit is missing
EarlyExitNever(v) == FALSE

\* "if val<0: ... return 0"
EarlyExit(v) == Lt0(v)

Evaluated(a, n, reg, v, rp) ==
    /\ evals' = evals + 1
    /\ lastEval' = [reg |-> reg, alpha |-> a, nu |-> n, val |-> v, params |-> rp]

\* the head of one iteration of "for sf in scale_factors": the evaluation at
\* alpha = 0 and the early exit
Chi2For ==
    /\ pc = "chi2for"
    /\ LET v == chi2objfunct(0, nu, rl) IN
         /\ alpha0' = 0
         /\ val0' = Fin(10)
         /\ alpha' = 0
         /\ val' = v
         /\ Evaluated(0, nu, rl, v, ObjRegParams(0, rl))
         /\ earlyAt' = IF Lt0(v) /\ earlyAt = 0 THEN evals + 1 ELSE earlyAt
         /\ IF EarlyExit(v)
            THEN /\ Returned(ParamZero)
                 /\ tried' = Append(tried, "early")
            ELSE /\ pc' = "chi2while"
                 /\ UNCHANGED <<reg_params, ki, calls, tried>>
    /\ UNCHANGED <<units, cfg, exc, reg_matricies, ri, data, rec, N, curve, sfi,
                   bracket, solverEvals, results, time>>

\* crossing alpha = -100 does not clear the bracket flag
Chi2StepKeepsBracket ==
    /\ pc = "chi2while"
    /\ ProdPos(val0, val)
    /\ val0' = val
    /\ alpha0' = alpha
    /\ alpha' = alpha - 1
    /\ val' = chi2objfunct(alpha - 1, nu, rl)
    /\ Evaluated(alpha - 1, nu, rl, val', ObjRegParams(alpha - 1, rl))
    /\ bracket' = TRUE
    /\ pc' = IF alpha - 1 < -AlphaLimit THEN "chi2next" ELSE "chi2while"
    /\ UNCHANGED <<units, cfg, exc, reg_matricies, ri, data, rec, N, reg_params, ki,
                   calls, curve, sfi, tried, earlyAt, solverEvals, results, time>>

\* the upper end of the interval stays where it was
Chi2StepKeepsAlpha0 ==
    /\ pc = "chi2while"
    /\ ProdPos(val0, val)
    /\ val0' = val
    /\ alpha0' = alpha0
    /\ alpha' = alpha - 1
    /\ val' = chi2objfunct(alpha - 1, nu, rl)
    /\ Evaluated(alpha - 1, nu, rl, val', ObjRegParams(alpha - 1, rl))
    /\ bracket' = ~(alpha - 1 < -AlphaLimit)
    /\ pc' = IF alpha - 1 < -AlphaLimit THEN "chi2next" ELSE "chi2while"
    /\ UNCHANGED <<units, cfg, exc, reg_matricies, ri, data, rec, N, reg_params, ki,
                   calls, curve, sfi, tried, earlyAt, solverEvals, results, time>>

\* the loop goes on below alpha = -100
Chi2StepNoLimit ==
    /\ pc = "chi2while"
    /\ ProdPos(val0, val)
    /\ val0' = val
    /\ alpha0' = alpha
    /\ alpha' = alpha - 1
    /\ val' = chi2objfunct(alpha - 1, nu, rl)
    /\ Evaluated(alpha - 1, nu, rl, val', ObjRegParams(alpha - 1, rl))
    /\ bracket' = TRUE
    /\ pc' = "chi2while"
    /\ UNCHANGED <<units, cfg, exc, reg_matricies, ri, data, rec, N, reg_params, ki,
                   calls, curve, sfi, tried, earlyAt, solverEvals, results, time>>

\* one iteration of "while val0*val > 0"
Chi2Step ==
    /\ pc = "chi2while"
    /\ ProdPos(val0, val)
    /\ val0' = val
    /\ alpha0' = alpha
    /\ alpha' = alpha - 1
    /\ val' = chi2objfunct(alpha - 1, nu, rl)
    /\ Evaluated(alpha - 1, nu, rl, val', ObjRegParams(alpha - 1, rl))
    /\ bracket' = ~(alpha - 1 < -AlphaLimit)
    /\ pc' = IF alpha - 1 < -AlphaLimit THEN "chi2next" ELSE "chi2while"
    /\ UNCHANGED <<units, cfg, exc, reg_matricies, ri, data, rec, N, reg_params, ki,
                   calls, curve, sfi, tried, earlyAt, solverEvals, results, time>>

\* the while condition is false
Chi2LoopExit ==
    /\ pc = "chi2while"
    /\ ~ProdPos(val0, val)
    /\ pc' = "chi2next"
    /\ UNCHANGED <<units, cfg, exc, reg_matricies, ri, data, rec, N, reg_params, ki,
                   calls, chi, ev, results, time>>

\* "if bracket: break", then the call of brentq
Chi2Bracketed ==
    /\ pc = "chi2next"
    /\ bracket
    /\ tried' = Append(tried, "bracket")
    /\ pc' = "brent"
    /\ UNCHANGED <<units, cfg, exc, reg_matricies, ri, data, rec, N, reg_params, ki,
                   calls, curve, sfi, alpha, alpha0, val, val0, bracket, earlyAt,
                   ev, results, time>>

\* "else: continue" with a scale factor left
Chi2NextTarget ==
    /\ pc = "chi2next"
    /\ ~bracket
    /\ sfi < Len(scale_factors)
    /\ sfi' = sfi + 1
    /\ tried' = Append(tried, "none")
    /\ pc' = "chi2for"
    /\ UNCHANGED <<units, cfg, exc, reg_matricies, ri, data, rec, N, reg_params, ki,
                   calls, curve, alpha, alpha0, val, val0, bracket, earlyAt,
                   ev, results, time>>

\* the for loop is exhausted: "if not bracket: raise ValueError"
Chi2NoRoot ==
    /\ pc = "chi2next"
    /\ ~bracket
    /\ sfi = Len(scale_factors)
    /\ tried' = Append(tried, "none")
    /\ Caught
    /\ UNCHANGED <<units, cfg, exc, reg_matricies, ri, data, rec, N, curve, sfi, alpha,
                   alpha0, val, val0, bracket, earlyAt, ev, results, time>>

\* brentq evaluates chi2objfunct inside [alpha, alpha0], with the same nu and reg
BrentEval ==
    /\ pc = "brent"
    /\ solverEvals < MaxEvals
    /\ \E a \in {alpha, alpha0} :
         Evaluated(a, nu, rl, chi2objfunct(a, nu, rl), ObjRegParams(a, rl))
    /\ solverEvals' = solverEvals + 1
    /\ UNCHANGED <<units, cfg, pc, exc, reg_matricies, ri, data, rec, N, reg_params, ki,
                   calls, chi, results, time>>

\* brentq returns a root of [alpha, alpha0]: "reg_param = np.power(10.,solution)"
BrentReturn ==
    /\ pc = "brent"
    /\ Returned(Pow10In(alpha, alpha0))
    /\ UNCHANGED <<units, cfg, exc, reg_matricies, ri, data, rec, N, chi, ev, results, time>>

\* brentq(..., disp=True) does not converge: RuntimeError
BrentFail ==
    /\ pc = "brent"
    /\ Propagate("RuntimeError")
    /\ UNCHANGED <<units, cfg, reg_matricies, ri, data, rec, N, reg_params, ki, calls,
                   chi, ev, results, time>>

\* ------------------------------------------------------------------ Fit.gcv
\* gcvobjfunct: the dictionary it builds from alpha and reg
GcvRegParams(a, reg) ==
    [k \in Range(regularization_list) |-> IF k = reg THEN Pow10(a) ELSE ParamZero]

RECURSIVE SumSeq(_)
SumSeq(s) == IF s = <<>> THEN 0 ELSE Head(s) + SumSeq(Tail(s))

\* gcvobjfunct: one residual per sample, summed (each residual counted as one
\* tenth; the sum over no samples is 0)
gcvobjfunct(a, reg) == Fin(SumSeq([i \in 1..N |-> 1]))

\* the points at which Nelder-Mead evaluates: the initial guess and its
\* neighbour in the initial simplex
GcvAlphas == {-GcvAlpha0, -GcvAlpha0 - 1}

\* find_reg_param calls reg_methods['gcv']: Fit.gcv up to the call of minimize
CallGcv ==
    /\ pc = "search"
    /\ ki <= Len(regularization_list)
    /\ reg_method = "gcv"
    /\ ResetEv
    /\ pc' = "gcv"
    /\ UNCHANGED <<units, cfg, exc, reg_matricies, ri, data, rec, N, reg_params, ki,
                   calls, chi, results, time>>

\* minimize evaluates gcvobjfunct, first at the initial guess
GcvEval ==
    /\ pc = "gcv"
    /\ solverEvals < MaxEvals
    /\ \E a \in (IF solverEvals = 0 THEN {-GcvAlpha0} ELSE GcvAlphas) :
         Evaluated(a, 0, rl, gcvobjfunct(a, rl), GcvRegParams(a, rl))
    /\ solverEvals' = solverEvals + 1
    /\ UNCHANGED <<units, cfg, pc, exc, reg_matricies, ri, data, rec, N, reg_params, ki,
                   calls, chi, results, time>>

\* minimize reports success: "reg_param = np.power(10.,solution.x[0])"
GcvReturn ==
    /\ pc = "gcv"
    /\ solverEvals > 0
    /\ \E x \in GcvAlphas : Returned(Pow10(x))
    /\ UNCHANGED <<units, cfg, exc, reg_matricies, ri, data, rec, N, chi, ev, results, time>>

\* "if not solution.success: raise ValueError"
GcvFail ==
    /\ pc = "gcv"
    /\ solverEvals > 0
    /\ Caught
    /\ UNCHANGED <<units, cfg, exc, reg_matricies, ri, data, rec, N, chi, ev, results, time>>

\* --------------------------------------------------- Fit.manual, Fit.prompt
\* the body of Fit.manual
manual(reg) == IF reg = "curvature" THEN Pow10(-LamExp) ELSE Pow10(-KappaExp)

\* find_reg_param calls reg_methods['manual'] with CallArgs arguments; a call
\* that does not fill the parameters of the def raises TypeError
CallManual ==
    /\ pc = "search"
    /\ ki <= Len(regularization_list)
    /\ reg_method = "manual"
    /\ IF StrategyArity("manual") = CallArgs
       THEN Returned(manual(rl)) /\ exc' = exc
       ELSE Propagate("TypeError") /\ UNCHANGED <<reg_params, ki, calls>>
    /\ UNCHANGED <<units, cfg, reg_matricies, ri, data, rec, N, chi, ev, results, time>>

\* find_reg_param calls reg_methods['prompt']; its body calls raw_input, which
\* is no name of Python 3
CallPrompt ==
    /\ pc = "search"
    /\ ki <= Len(regularization_list)
    /\ reg_method = "prompt"
    /\ IF StrategyArity("prompt") = CallArgs
       THEN Propagate("NameError")
       ELSE Propagate("TypeError")
    /\ UNCHANGED <<units, cfg, reg_matricies, ri, data, rec, N, reg_params, ki, calls,
                   chi, ev, results, time>>

\* "return reg_params"
FindRegParamReturn ==
    /\ pc = "search"
    /\ ki > Len(regularization_list)
    /\ pc' = "searched"
    /\ ResetChi
    /\ ResetEv
    /\ UNCHANGED <<units, cfg, exc, reg_matricies, ri, data, rec, N, reg_params, ki,
                   calls, results, time>>

\* ------------------------------------- Fit.fit: Disqualify, Solve, Accumulate
\* np.all in place of np.any
IsDisqualifiedAll(rp) == \A k \in DOMAIN rp : IsNaN(rp[k])

\* "np.any(np.isnan([v for v in reg_params.values()]))"
IsDisqualified(rp) == \E k \in DOMAIN rp : IsNaN(rp[k])

\* the disqualified record leaves no coefficient slot
AppendNanCoeffsSkipped(cs) == cs

\* "Coeffs.append(np.full(self.model.nbasis, np.nan))"
AppendNanCoeffs(cs) == Append(cs, NanVec)
\* "Covariance.append(np.full((nbasis,nbasis), np.nan))"
AppendNanCovariance(cv) == Append(cv, NanMat)
\* "chi_sq.append(np.nan)"
AppendNanChiSq(cq) == Append(cq, "nan")

\* the placeholder is appended without "continue": the record is then solved
\* with the NaN parameter and appended a second time
DisqualifyNoContinue ==
    /\ pc = "searched"
    /\ IsDisqualified(reg_params)
    /\ Coeffs' = Append(AppendNanCoeffs(Coeffs), NanVec)
    /\ Covariance' = Append(AppendNanCovariance(Covariance), NanMat)
    /\ chi_sq' = Append(AppendNanChiSq(chi_sq), "nan")
    /\ origin' = Append(Append(origin, utime[rec]), utime[rec])
    /\ path' = Append(Append(path, "placeholder"), "solved")
    /\ pc' = "loop"
    /\ UNCHANGED <<units, cfg, exc, reg_matricies, ri, data, rec, N, reg_params, ki,
                   calls, chi, ev, time>>

Disqualify ==
    /\ pc = "searched"
    /\ IsDisqualified(reg_params)
    /\ Coeffs' = AppendNanCoeffs(Coeffs)
    /\ Covariance' = AppendNanCovariance(Covariance)
    /\ chi_sq' = AppendNanChiSq(chi_sq)
    /\ origin' = Append(origin, utime[rec])
    /\ path' = Append(path, "placeholder")
    /\ pc' = "loop"
    /\ UNCHANGED <<units, cfg, exc, reg_matricies, ri, data, rec, N, reg_params, ki,
                   calls, chi, ev, time>>

\* eval_C(..., calccov=True) and the chi2 of the final fit: finite numbers,
\* which are zeros when the record has no sample (y = 0, AWA = 0, empty sum)
SolvedEntry == IF N = 0 THEN "zero" ELSE "num"

Solve ==
    /\ pc = "searched"
    /\ ~IsDisqualified(reg_params)
    /\ Coeffs' = Append(Coeffs, ConstVec(SolvedEntry))
    /\ Covariance' = Append(Covariance, ConstMat(SolvedEntry))
    /\ chi_sq' = Append(chi_sq, SolvedEntry)
    /\ origin' = Append(origin, utime[rec])
    /\ path' = Append(path, "solved")
    /\ pc' = "loop"
    /\ UNCHANGED <<units, cfg, exc, reg_matricies, ri, data, rec, N, reg_params, ki,
                   calls, chi, ev, time>>

\* the loop is exhausted: "self.time = utime" and the conversion of the lists
Finish ==
    /\ pc = "loop"
    /\ rec = Len(utime)
    /\ time' = utime
    /\ pc' = "done"
    /\ UNCHANGED <<units, cfg, exc, reg_matricies, ri, data, rec, N, reg_params, ki,
                   calls, chi, ev, results>>

Next ==
    \/ EvalRegMatrix \/ GetData \/ Filter
    \/ CallChi2 \/ Chi2For \/ Chi2Step \/ Chi2LoopExit \/ Chi2Bracketed
    \/ Chi2NextTarget \/ Chi2NoRoot \/ BrentEval \/ BrentReturn \/ BrentFail
    \/ CallGcv \/ GcvEval \/ GcvReturn \/ GcvFail
    \/ CallManual \/ CallPrompt
    \/ FindRegParamReturn \/ Disqualify \/ Solve \/ Finish

Spec == Init /\ [][Next]_vars

\* ------------------------------------------------ the units, outside Fit.fit
fitvars == <<cfg, pc, exc, reg_matricies, ri, data, rec, N, reg_params, ki, calls,
             chi, ev, results, time>>

\* a Fit object whose fit() is not running
FitIdle ==
    /\ reg_method = "chi2"
    /\ supported = Kinds
    /\ pc = "idle"
    /\ exc = "none"
    /\ reg_matricies = {}
    /\ ri = 1
    /\ dataRead = FALSE
    /\ utime = <<>>
    /\ npoints = 0
    /\ rec = 0
    /\ N = 0
    /\ reg_params = <<>>
    /\ ki = 1
    /\ calls = <<>>
    /\ curve = Flat(Fin(0))
    /\ sfi = 1 /\ alpha = 0 /\ alpha0 = 0 /\ val = Fin(0) /\ val0 = Fin(0)
    /\ bracket = FALSE
    /\ tried = <<>>
    /\ earlyAt = 0
    /\ evals = 0 /\ solverEvals = 0 /\ lastEval = NoEval
    /\ Coeffs = <<>> /\ Covariance = <<>> /\ chi_sq = <<>>
    /\ origin = <<>> /\ path = <<>>
    /\ time = <<>>

\* --------------------------------------------------------------- Fit.eval_C
\* Matrices are functions row -> column -> integer.  A is N x nbasis; b and W
\* are N x 1 columns ("W = np.array(er0**(-2))[:,None]", "b = ne0[:,None]").

\* M.T of an r x c matrix
TransposeOf(M, r, c) == [j \in 1..c |-> [i \in 1..r |-> M[i][j]]]

\* every row is scaled by the first weight
BroadcastFirst(W, M, r, c) == [i \in 1..r |-> [j \in 1..c |-> W[1][1] * M[i][j]]]

\* W*M: the r x 1 column W broadcast over the columns of the r x c matrix M
Broadcast(W, M, r, c) == [i \in 1..r |-> [j \in 1..c |-> W[i][1] * M[i][j]]]

RECURSIVE DotEntry(_, _, _, _, _)
DotEntry(P, Q, i, j, k) ==
    IF k = 0 THEN 0 ELSE DotEntry(P, Q, i, j, k - 1) + P[i][k] * Q[k][j]

\* np.dot(P, Q) of an r x n matrix and an n x c matrix
dot(P, Q, r, n, c) == [i \in 1..r |-> [j \in 1..c |-> DotEntry(P, Q, i, j, n)]]

\* the matrix is added without its parameter
RegTermUnscaled(p, R) == R

\* "reg_params[reg]*reg_matrices[reg]"
RegTerm(p, R) == [i \in 1..nbasis |-> [j \in 1..nbasis |-> p * R[i][j]]]

MatAdd(X, Y) == [i \in 1..nbasis |-> [j \in 1..nbasis |-> X[i][j] + Y[i][j]]]

\* "for reg in self.regularization_list: X = X + reg_params[reg]*reg_matrices[reg]",
\* after i iterations
RECURSIVE AddRegs(_, _, _, _)
AddRegs(X, rp, rm, i) ==
    IF i = 0 THEN X
    ELSE MatAdd(AddRegs(X, rp, rm, i - 1),
                RegTerm(rp[regularization_list[i]], rm[regularization_list[i]]))

\* "AWA = np.dot(A.T,W*A)"
EvalC_AWA(A, W, n) ==
    dot(TransposeOf(A, n, nbasis), Broadcast(W, A, n, nbasis), nbasis, n, nbasis)

\* "X = np.dot(A.T,W*A)" and the loop over the kinds
EvalC_X(A, W, rp, rm, n) ==
    AddRegs(dot(TransposeOf(A, n, nbasis), Broadcast(W, A, n, nbasis), nbasis, n, nbasis),
            rp, rm, Len(regularization_list))

\* "y = np.dot(A.T,W*b)"
EvalC_y(A, b, W, n) ==
    dot(TransposeOf(A, n, nbasis), Broadcast(W, b, n, 1), nbasis, n, 1)

\* what scipy computes from its arguments is kept as a term
lstsq(X, y) == [f |-> "lstsq", a |-> X, b |-> y]
\* the argument of pinv is X if the solve left it alone, and unknown if the
\* solve used the storage it was given ("overwrite_a=True")
pinv(X, live) == [f |-> "pinv", live |-> live, a |-> IF live THEN X ELSE <<>>]
NoTerm == [f |-> "none"]

\* the samples a call is made with: a row of A, its b and its W
UnitRow(j) == [c \in 1..nbasis |-> IF c = j THEN 1 ELSE 0]
OnesRow == [c \in 1..nbasis |-> 1]
Samples ==
    {[row |-> UnitRow(j), b |-> 1, W |-> 1] : j \in 1..nbasis}
        \cup {[row |-> UnitRow(1), b |-> 2, W |-> 3], [row |-> OnesRow, b |-> 2, W |-> 3]}

\* the regularization matrices a model may supply, and the parameters (scaled
\* to integers) a caller may pass
Identity == [i \in 1..nbasis |-> [j \in 1..nbasis |-> IF i = j THEN 1 ELSE 0]]
Ones == [i \in 1..nbasis |-> [j \in 1..nbasis |-> 1]]
RegMatrixDicts ==
    {[k \in Kinds |-> IF k = "curvature" THEN Identity ELSE Ones],
     [k \in Kinds |-> IF k = "curvature" THEN Ones ELSE RegTerm(2, Identity)]}
RegParamDicts == [Kinds -> {0, 3}]

\* eval_C up to the call of lstsq: AWA, X and y
EvalCSystem ==
    /\ ec.pc = "idle"
    /\ \E n \in 0..MaxPoints :
         \E smp \in [1..n -> Samples], rm \in RegMatrixDicts, rp \in RegParamDicts :
           LET A == [i \in 1..n |-> smp[i].row]
               b == [i \in 1..n |-> <<smp[i].b>>]
               W == [i \in 1..n |-> <<smp[i].W>>]
           IN ec' = [pc |-> "system", n |-> n, A |-> A, b |-> b, W |-> W,
                     reg_matrices |-> rm, reg_params |-> rp,
                     AWA |-> EvalC_AWA(A, W, n),
                     X |-> EvalC_X(A, W, rp, rm, n),
                     y |-> EvalC_y(A, b, W, n),
                     C |-> NoTerm, Xlive |-> TRUE, calccov |-> FALSE, dC |-> NoTerm]
    /\ UNCHANGED <<fitvars, bn, gd, sw, sh, tc, gv>>

\* "C = np.squeeze(scipy.linalg.lstsq(X,y,overwrite_a=True,overwrite_b=True)[0])"
EvalCLstsq ==
    /\ ec.pc = "system"
    /\ \E live \in BOOLEAN :
         ec' = [ec EXCEPT !.pc = "solved", !.C = lstsq(ec.X, ec.y), !.Xlive = live]
    /\ UNCHANGED <<fitvars, bn, gd, sw, sh, tc, gv>>

\* "if calccov: H = scipy.linalg.pinv(X); dC = np.dot(H,np.dot(AWA,H.T)); return C, dC"
\* and "else: return C"
EvalCReturn ==
    /\ ec.pc = "solved"
    /\ \E calccov \in BOOLEAN :
         ec' = [ec EXCEPT !.pc = "returned", !.calccov = calccov,
                          !.dC = IF calccov
                                 THEN [f |-> "H.AWA.Ht", H |-> pinv(ec.X, ec.Xlive),
                                       AWA |-> ec.AWA]
                                 ELSE NoTerm]
    /\ UNCHANGED <<fitvars, bn, gd, sw, sh, tc, gv>>

SolveInit ==
    /\ regularization_list \in RegLists
    /\ FitIdle
    /\ ec = Idle /\ bn = Idle /\ gd = Idle /\ sw = Idle
    /\ sh = Idle /\ tc = Idle /\ gv = Idle

SolveNext == EvalCSystem \/ EvalCLstsq \/ EvalCReturn

SpecSolve == SolveInit /\ [][SolveNext]_vars

\* ---------------------------------------------------- Model.basis_numbers
\* the square root is rounded up
CeilSqrt(r) == CHOOSE s \in 0..r : (s = 0 \/ (s - 1) * (s - 1) < r) /\ r <= s * s

\* "np.floor(np.sqrt(r))" for an integer r >= 0
FloorSqrt(r) == CHOOSE s \in 0..r : s * s <= r /\ r < (s + 1) * (s + 1)

\* m is counted from l*l
basis_numbers_square(maxl, n) ==
    LET k == n \div (maxl * maxl)
        r == n % (maxl * maxl)
        l == FloorSqrt(r)
        m == r - l * l
    IN <<k, l, m>>

\* the body of Model.basis_numbers
basis_numbers(maxl, n) ==
    LET k == n \div (maxl * maxl)
        r == n % (maxl * maxl)
        l == FloorSqrt(r)
        m == r - l * (l + 1)
    IN <<k, l, m>>

\* Model.__init__: "self.nbasis = self.maxk*self.maxl**2"
ModelInit(maxk, maxl) ==
    [pc |-> "model", maxk |-> maxk, maxl |-> maxl, nbasis |-> maxk * maxl * maxl,
     n |-> 0, k |-> 0, l |-> 0, m |-> 0]

\* a call of basis_numbers with an index of the basis
BasisNumbers ==
    /\ bn.pc \in {"model", "returned"}
    /\ \E n \in 0..(bn.nbasis - 1) :
         LET klm == basis_numbers(bn.maxl, n)
         IN bn' = [bn EXCEPT !.pc = "returned", !.n = n,
                             !.k = klm[1], !.l = klm[2], !.m = klm[3]]
    /\ UNCHANGED <<fitvars, ec, gd, sw, sh, tc, gv>>

BasisInit ==
    /\ regularization_list = <<"curvature">>
    /\ FitIdle
    /\ \E maxk \in 1..MaxMaxk, maxl \in 1..MaxMaxl : bn = ModelInit(maxk, maxl)
    /\ ec = Idle /\ gd = Idle /\ sw = Idle
    /\ sh = Idle /\ tc = Idle /\ gv = Idle

BasisNext == BasisNumbers

SpecBasis == BasisInit /\ [][BasisNext]_vars

\* ------------------------------------------- Fit.get_data and the filter of Fit.fit
\* Floats of the data arrays: a finite number, +inf or NaN.
NumF(x) == [c |-> "fin", v |-> x]
InfF == [c |-> "inf", v |-> 0]
NanF == [c |-> "nan", v |-> 0]
\* np.isfinite
IsFinite(a) == a.c = "fin"
\* a > b and a < b on floats: False when either is NaN
GtF(a, b) ==
    /\ a.c # "nan" /\ b.c # "nan"
    /\ IF a.c = "inf" THEN b.c # "inf"
       ELSE IF b.c = "inf" THEN FALSE ELSE a.v > b.v
LtF(a, b) == GtF(b, a)
\* a - n
SubF(a, n) == IF a.c = "fin" THEN NumF(a.v - n) ELSE a
\* e**(-2): 1/e^2 for a finite e # 0 (kept as its denominator), inf for 0
\* (numpy warns and goes on), 0 for inf, NaN for NaN
PowM2(e) ==
    IF e.c = "nan" THEN NanF
    ELSE IF e.c = "inf" THEN NumF(0)
    ELSE IF e.v = 0 THEN InfF
    ELSE [c |-> "recip", v |-> e.v * e.v]

\* get_data: "if np.nanmedian(chi2) > 100.: chi2 = chi2 - 369."
Chi2MedianLimit == 100
Chi2Shift == 369

\* the indices 1..n at which mask is TRUE, in increasing order: x[mask]
RECURSIVE Where(_, _)
Where(mask, n) ==
    IF n = 0 THEN <<>>
    ELSE IF mask[n] THEN Append(Where(mask, n - 1), n) ELSE Where(mask, n - 1)

\* the k-th smallest entry of the sequence s of integers
Kth(s, k) ==
    CHOOSE x \in Range(s) :
        /\ Cardinality({i \in 1..Len(s) : s[i] < x}) < k
        /\ k <= Cardinality({i \in 1..Len(s) : s[i] <= x})

\* np.nanmedian(c2) > limit for the nrec x npts array c2: the median of the
\* entries that are not NaN (NaN > limit is False when there is none)
NanMedianAbove(c2, nrec, npts, limit) ==
    LET flat == [i \in 1..(nrec * npts) |-> c2[((i - 1) \div npts) + 1][((i - 1) % npts) + 1]]
        idx == Where([i \in 1..(nrec * npts) |-> flat[i].c # "nan"], nrec * npts)
        s == [i \in 1..Len(idx) |-> flat[idx[i]].v]
        n == Len(s)
    IN IF n = 0 THEN FALSE
       ELSE IF n % 2 = 1 THEN Kth(s, (n + 1) \div 2) > limit
       ELSE Kth(s, n \div 2) + Kth(s, (n \div 2) + 1) > 2 * limit

\* the chi2 array the checks read
CorrectedChi2(f) ==
    IF NanMedianAbove(f.chi2, f.nrec, f.npts, Chi2MedianLimit)
    THEN [r \in 1..f.nrec |-> [p \in 1..f.npts |-> SubF(f.chi2[r][p], Chi2Shift)]]
    ELSE f.chi2

\* the lower error limit is not checked
DataCheckNoLower(e, c, fc, errlim, chi2lim, goodfitcode) ==
    /\ LtF(e, errlim[2])
    /\ GtF(c, chi2lim[1])
    /\ LtF(c, chi2lim[2])
    /\ fc \in goodfitcode

\* one column of data_check, all five rows True
DataCheck(e, c, fc, errlim, chi2lim, goodfitcode) ==
    /\ GtF(e, errlim[1])
    /\ LtF(e, errlim[2])
    /\ GtF(c, chi2lim[1])
    /\ LtF(c, chi2lim[2])
    /\ fc \in goodfitcode

\* "bad_data = np.squeeze(np.any(data_check==False,axis=0,keepdims=True))":
\* the shape of bad_data is (1, nrec, npts) without its axes of length 1
SqueezedShape(nrec, npts) == SelectSeq(<<nrec, npts>>, LAMBDA d : d # 1)
\* "value[bad_data] = np.nan": a boolean index must have the lengths of the
\* leading axes of the nrec x npts array it indexes
IndexMatches(shape, nrec, npts) ==
    \A i \in 1..Len(shape) : shape[i] = <<nrec, npts>>[i]

\* "value[bad_data] = np.nan", "error[bad_data] = np.nan"
MaskBad(x, bad) == IF bad THEN NanF ELSE x

\* what a data file may hold: every sample is Good except at most one, every
\* point has finite coordinates except at most one, and every chi2 may be too
\* large by 369
Good == [value |-> NumF(3), error |-> NumF(2), chi2 |-> NumF(1), fitcode |-> 1]
Specials ==
    {[Good EXCEPT !.error = NanF], [Good EXCEPT !.error = InfF],
     [Good EXCEPT !.error = NumF(0)], [Good EXCEPT !.error = NumF(-1)],
     [Good EXCEPT !.error = NumF(20)],
     [Good EXCEPT !.chi2 = NumF(50)], [Good EXCEPT !.chi2 = NumF(0)],
     [Good EXCEPT !.chi2 = NanF],
     [Good EXCEPT !.fitcode = 0],
     [Good EXCEPT !.value = NanF], [Good EXCEPT !.value = InfF]}
GoodPoint == [lat |-> NumF(1), lon |-> NumF(1), alt |-> NumF(1)]
BadPoints ==
    {[GoodPoint EXCEPT !.lat = NanF], [GoodPoint EXCEPT !.lon = NanF],
     [GoodPoint EXCEPT !.alt = NanF], [lat |-> NanF, lon |-> NanF, alt |-> NanF]}

File(nrec, npts, sr, sp, s, bp, pt, shift) ==
    LET smp(r, p) == IF r = sr /\ p = sp THEN s ELSE Good
        crd(p) == IF p = bp THEN pt ELSE GoodPoint
    IN [nrec |-> nrec, npts |-> npts,
        value |-> [r \in 1..nrec |-> [p \in 1..npts |-> smp(r, p).value]],
        error |-> [r \in 1..nrec |-> [p \in 1..npts |-> smp(r, p).error]],
        chi2 |-> [r \in 1..nrec |-> [p \in 1..npts |->
                     IF shift /\ smp(r, p).chi2.c = "fin"
                     THEN NumF(smp(r, p).chi2.v + Chi2Shift) ELSE smp(r, p).chi2]],
        fitcode |-> [r \in 1..nrec |-> [p \in 1..npts |-> smp(r, p).fitcode]],
        latitude |-> [p \in 1..npts |-> crd(p).lat],
        longitude |-> [p \in 1..npts |-> crd(p).lon],
        altitude |-> [p \in 1..npts |-> crd(p).alt]]

Files ==
    {File(nrec, npts, sr, sp, s, bp, pt, shift) :
        nrec \in 1..MaxRecords, npts \in 1..MaxPoints,
        sr \in 0..MaxRecords, sp \in 1..MaxPoints, s \in Specials \cup {Good},
        bp \in 0..MaxPoints, pt \in BadPoints \cup {GoodPoint}, shift \in BOOLEAN}

\* read_config: ERRLIM, CHI2LIM, GOODFITCODE
Configs ==
    {[errlim |-> <<NumF(lo), NumF(10)>>, chi2lim |-> <<NumF(0), NumF(10)>>,
      goodfitcode |-> {1, 2, 3, 4}] : lo \in {0, -2}}

NoInputs == [pts |-> <<>>, ne0 |-> <<>>, er0 |-> <<>>, W |-> <<>>,
             lat0 |-> <<>>, lon0 |-> <<>>, alt0 |-> <<>>]

\* get_data: the arrays of the file, the quality checks, and the points with
\* a finite altitude.  cols[i] is the point of the file that column i of the
\* returned arrays holds.
GetDataArrays ==
    /\ gd.pc = "config"
    /\ \E f \in Files :
         LET c2 == CorrectedChi2(f)
             bad == [r \in 1..f.nrec |-> [p \in 1..f.npts |->
                       ~DataCheck(f.error[r][p], c2[r][p], f.fitcode[r][p],
                                  gd.errlim, gd.chi2lim, gd.goodfitcode)]]
             value == [r \in 1..f.nrec |-> [p \in 1..f.npts |-> MaskBad(f.value[r][p], bad[r][p])]]
             error == [r \in 1..f.nrec |-> [p \in 1..f.npts |-> MaskBad(f.error[r][p], bad[r][p])]]
             cols == Where([p \in 1..f.npts |-> IsFinite(f.altitude[p])], f.npts)
         IN IF IndexMatches(SqueezedShape(f.nrec, f.npts), f.nrec, f.npts)
            THEN gd' = [gd EXCEPT !.pc = "hull", !.file = f, !.chi2 = c2, !.bad = bad,
                          !.cols = cols,
                          !.value = [r \in 1..f.nrec |-> [i \in 1..Len(cols) |-> value[r][cols[i]]]],
                          !.error = [r \in 1..f.nrec |-> [i \in 1..Len(cols) |-> error[r][cols[i]]]],
                          !.latitude = [i \in 1..Len(cols) |-> f.latitude[cols[i]]],
                          !.longitude = [i \in 1..Len(cols) |-> f.longitude[cols[i]]],
                          !.altitude = [i \in 1..Len(cols) |-> f.altitude[cols[i]]]]
            ELSE gd' = [gd EXCEPT !.pc = "raised", !.exc = "IndexError", !.file = f,
                          !.chi2 = c2, !.bad = bad]
    /\ UNCHANGED <<fitvars, ec, bn, sw, sh, tc, gv>>

\* what ConvexHull does with the coordinates: it succeeds on finite points
\* (taken to be enough points in general position); on a NaN coordinate it
\* raises or goes on, depending on the library
HullOutcomes(lat, lon, alt) ==
    IF \A i \in 1..Len(alt) : IsFinite(lat[i]) /\ IsFinite(lon[i]) /\ IsFinite(alt[i])
    THEN {"ok"} ELSE {"ok", "ValueError"}

\* fit: compute_hull and the starttime/endtime filter
ComputeHull ==
    /\ gd.pc = "hull"
    /\ \E out \in HullOutcomes(gd.latitude, gd.longitude, gd.altitude),
          given \in BOOLEAN, window \in SUBSET (1..gd.file.nrec) :
         IF out = "ok"
         THEN gd' = [gd EXCEPT !.pc = "loop",
                        !.recs = IF given THEN Filtered(gd.file.nrec, window)
                                 ELSE Filtered(gd.file.nrec, 1..gd.file.nrec)]
         ELSE gd' = [gd EXCEPT !.pc = "raised", !.exc = out]
    /\ UNCHANGED <<fitvars, ec, bn, sw, sh, tc, gv>>

\* the filtered coordinates are assigned to lat, lon and alt themselves
FilterRecordShadows ==
    /\ gd.pc = "loop"
    /\ gd.r < Len(gd.recs)
    /\ LET ne0 == gd.value[gd.recs[gd.r + 1]]
           er0 == gd.error[gd.recs[gd.r + 1]]
           keep == Where([i \in 1..Len(gd.cols) |-> IsFinite(ne0[i])], Len(gd.cols))
           at(x, i) == IF i <= Len(x) THEN x[i] ELSE NanF
           lat0 == [i \in 1..Len(keep) |-> at(gd.latitude, keep[i])]
           lon0 == [i \in 1..Len(keep) |-> at(gd.longitude, keep[i])]
           alt0 == [i \in 1..Len(keep) |-> at(gd.altitude, keep[i])]
       IN gd' = [gd EXCEPT !.r = gd.r + 1,
                    !.latitude = lat0, !.longitude = lon0, !.altitude = alt0,
                    !.inputs = [pts |-> [i \in 1..Len(keep) |-> gd.cols[keep[i]]],
                                lat0 |-> lat0, lon0 |-> lon0, alt0 |-> alt0,
                                er0 |-> [i \in 1..Len(keep) |-> er0[keep[i]]],
                                ne0 |-> [i \in 1..Len(keep) |-> ne0[keep[i]]],
                                W |-> [i \in 1..Len(keep) |-> PowM2(er0[keep[i]])]]]
    /\ UNCHANGED <<fitvars, ec, bn, sw, sh, tc, gv>>

\* fit: the head of one iteration of the record loop, up to A, b and W.
\* A has one row per entry of lat0, lon0, alt0, computed from them.
FilterRecord ==
    /\ gd.pc = "loop"
    /\ gd.r < Len(gd.recs)
    /\ LET ne0 == gd.value[gd.recs[gd.r + 1]]
           er0 == gd.error[gd.recs[gd.r + 1]]
           keep == Where([i \in 1..Len(gd.cols) |-> IsFinite(ne0[i])], Len(gd.cols))
       IN gd' = [gd EXCEPT !.r = gd.r + 1,
                    !.inputs = [pts |-> [i \in 1..Len(keep) |-> gd.cols[keep[i]]],
                                lat0 |-> [i \in 1..Len(keep) |-> gd.latitude[keep[i]]],
                                lon0 |-> [i \in 1..Len(keep) |-> gd.longitude[keep[i]]],
                                alt0 |-> [i \in 1..Len(keep) |-> gd.altitude[keep[i]]],
                                er0 |-> [i \in 1..Len(keep) |-> er0[keep[i]]],
                                ne0 |-> [i \in 1..Len(keep) |-> ne0[keep[i]]],
                                W |-> [i \in 1..Len(keep) |-> PowM2(er0[keep[i]])]]]
    /\ UNCHANGED <<fitvars, ec, bn, sw, sh, tc, gv>>

DataInit ==
    /\ regularization_list = <<"curvature">>
    /\ FitIdle
    /\ \E c \in Configs :
         gd = [pc |-> "config", exc |-> "none", errlim |-> c.errlim,
               chi2lim |-> c.chi2lim, goodfitcode |-> c.goodfitcode,
               file |-> <<>>, chi2 |-> <<>>, bad |-> <<>>, cols |-> <<>>,
               value |-> <<>>, error |-> <<>>, latitude |-> <<>>, longitude |-> <<>>,
               altitude |-> <<>>, recs |-> <<>>, r |-> 0, inputs |-> NoInputs]
    /\ ec = Idle /\ bn = Idle /\ sw = Idle
    /\ sh = Idle /\ tc = Idle /\ gv = Idle

DataNext == GetDataArrays \/ ComputeHull \/ FilterRecord

SpecData == DataInit /\ [][DataNext]_vars

\* ------------------------------------- Fit.chi2: the search of one target
\* chi-squared (tenths) with two knees: hi above k1, mid in (k2, k1], lo at
\* and below k2
Stair(h, m, l, k1, k2) == [hi |-> h, mid |-> m, lo |-> l, k1 |-> k1, k2 |-> k2]
StairAt(c, a) == IF a > c.k1 THEN c.hi ELSE IF a > c.k2 THEN c.mid ELSE c.lo
\* curves that do not decrease with alpha
MonotoneCurves ==
    {c \in {Stair(Fin(h), Fin(m), Fin(l), k1, k2) :
                h \in {7, 15, 25}, m \in {0, 9, 15}, l \in {0, 7},
                k1 \in {-1, -AlphaLimit}, k2 \in {-3, -AlphaLimit - 1}} :
        c.hi.v >= c.mid.v /\ c.mid.v >= c.lo.v /\ c.k1 > c.k2}

\* chi2objfunct for the data of one curve
ObjOf(c, a, n) == Minus(StairAt(c, a), n)

\* "while val0*val > 0: ..." from the state (alpha, alpha0, val0, val,
\* bracket), then "if bracket: break" and brentq, or "else: continue"
RECURSIVE WhileLoop(_, _, _, _, _, _, _)
WhileLoop(c, n, a, a0, v0, v, br) ==
    IF ProdPos(v0, v)
    THEN IF a - 1 < -AlphaLimit THEN ValueErrorOut
         ELSE WhileLoop(c, n, a - 1, a, v, ObjOf(c, a - 1, n), TRUE)
    ELSE IF br THEN Pow10In(a, a0) ELSE ValueErrorOut

\* Fit.chi2 with the single target n (scale_factors = [sf]): 0 from the early
\* exit, 10^a for a root a of the bracket, or the no-root ValueError
SearchOne(c, n) ==
    IF EarlyExit(ObjOf(c, 0, n)) THEN ParamZero
    ELSE WhileLoop(c, n, 0, 0, Fin(10), ObjOf(c, 0, n), FALSE)

\* the data of one record: its curve and its number of samples
SweepInit ==
    /\ regularization_list = <<"curvature">>
    /\ FitIdle
    /\ \E c \in MonotoneCurves, n \in 1..MaxPoints :
         sw = [pc |-> "data", curve |-> c, N |-> n, nu1 |-> 0, nu2 |-> 0,
               out1 |-> ParamNaN, out2 |-> ParamNaN]
    /\ ec = Idle /\ bn = Idle /\ gd = Idle
    /\ sh = Idle /\ tc = Idle /\ gv = Idle

\* the search run for two targets N*sf of the same data
SearchTwoTargets ==
    /\ sw.pc = "data"
    /\ \E t1, t2 \in 1..Len(scale_factors) :
         /\ t1 < t2
         /\ sw' = [sw EXCEPT !.pc = "searched",
                             !.nu1 = sw.N * scale_factors[t1],
                             !.nu2 = sw.N * scale_factors[t2],
                             !.out1 = SearchOne(sw.curve, sw.N * scale_factors[t1]),
                             !.out2 = SearchOne(sw.curve, sw.N * scale_factors[t2])]
    /\ UNCHANGED <<fitvars, ec, bn, gd, sh, tc, gv>>

SweepNext == SearchTwoTargets

SpecSweep == SweepInit /\ [][SweepNext]_vars

\* --------------------------- Fit.fit: the arrays shared between the calls
\* An array is a cell of the store: its contents and whether they are still
\* the ones that were written (a routine that was allowed to use the array as
\* workspace leaves contents nobody knows).  The cells are named after the
\* variables that refer to them; the matrix of a kind is named by the kind.
Cell(a) == [a |-> a, live |-> TRUE]
NoStore == <<>>

\* the arrays scipy.linalg.lstsq is given when the solve is made from the
\* design matrix and the data themselves
LstsqOverwritesInputs == {"A", "b"}

\* "scipy.linalg.lstsq(X,y,overwrite_a=True,overwrite_b=True)": the arrays
\* the solver may use as workspace
LstsqOverwrites == {"X", "y"}

\* the store after the statements of eval_C: AWA, X and y are new arrays
\* ("X = X + ..." binds X to a new array in every iteration), and the cells
\* in clob have been used as workspace by lstsq
EvalCStore(st, rp, clob) ==
    LET n == Len(st["A"].a)
        rm == [k \in Range(regularization_list) |-> st[k].a]
        new == [c \in {"AWA", "X", "y"} |->
                  Cell(IF c = "AWA" THEN EvalC_AWA(st["A"].a, st["W"].a, n)
                       ELSE IF c = "X" THEN EvalC_X(st["A"].a, st["W"].a, rp, rm, n)
                       ELSE EvalC_y(st["A"].a, st["b"].a, st["W"].a, n))]
        all == [c \in (DOMAIN st) \cup (DOMAIN new) |->
                  IF c \in DOMAIN new THEN new[c] ELSE st[c]]
    IN [c \in DOMAIN all |-> IF c \in clob THEN [all[c] EXCEPT !.live = FALSE] ELSE all[c]]

\* the arrays that outlive the call: AWA, X and y are locals of eval_C
AfterReturn(st) == [c \in (DOMAIN st) \ {"AWA", "X", "y"} |-> st[c]]

\* the last row is removed, whatever i is
DeleteLast(M, i) == [j \in 1..(Len(M) - 1) |-> M[j]]

\* "np.delete(A0,i,0)": a new array without row i
Delete(M, i) == [j \in 1..(Len(M) - 1) |-> IF j < i THEN M[j] ELSE M[j + 1]]

\* fit: one iteration of "for reg in self.regularization_list:
\* reg_matricies[reg] = self.model.eval_reg_matricies[reg]()"
ShareRegMatrix ==
    /\ sh.pc = "regs"
    /\ LET reg == regularization_list[sh.ri]
       IN sh' = [sh EXCEPT !.ri = sh.ri + 1,
                    !.pc = IF sh.ri = Len(regularization_list) THEN "loop" ELSE "regs",
                    !.ncomp = [sh.ncomp EXCEPT ![reg] = sh.ncomp[reg] + 1],
                    !.first = IF reg \in DOMAIN sh.first THEN sh.first
                              ELSE Put(sh.first, reg, sh.model[reg]),
                    !.store = Put(sh.store, reg, Cell(sh.model[reg]))]
    /\ UNCHANGED <<fitvars, ec, bn, gd, sw, tc, gv>>

\* fit: the head of one iteration of the record loop: A, b and W are new
\* arrays of the record's samples
ShareRecord(n, smp) ==
    /\ sh.pc = "loop"
    /\ sh.rec < MaxRecords
    /\ sh' = [sh EXCEPT !.pc = "record", !.rec = sh.rec + 1, !.nev = 0,
                !.last = "filter",
                !.store = [c \in (DOMAIN sh.store) \cup {"A", "b", "W"} |->
                             IF c = "A" THEN Cell([i \in 1..n |-> smp[i].row])
                             ELSE IF c = "b" THEN Cell([i \in 1..n |-> <<smp[i].b>>])
                             ELSE IF c = "W" THEN Cell([i \in 1..n |-> <<smp[i].W>>])
                             ELSE sh.store[c]]]

\* the samples of a record: n samples in a row of a fixed enumeration of
\* Samples, from its k-th on
SampleAt(j) ==
    IF j <= nbasis THEN [row |-> UnitRow(j), b |-> 1, W |-> 1]
    ELSE IF j = nbasis + 1 THEN [row |-> UnitRow(1), b |-> 2, W |-> 3]
    ELSE [row |-> OnesRow, b |-> 2, W |-> 3]
SampleRun(n, k) == [i \in 1..n |-> SampleAt(((k + i - 1) % (nbasis + 2)) + 1)]

ShareFilter ==
    /\ \E n \in 0..MaxPoints, k \in 0..(nbasis + 1) : ShareRecord(n, SampleRun(n, k))
    /\ UNCHANGED <<fitvars, ec, bn, gd, sw, tc, gv>>

\* chi2objfunct: "C = self.eval_C(A,b,W,reg_matrices,reg_params)"
ShareChi2Objective ==
    /\ sh.pc = "record"
    /\ sh.nev < MaxEvals
    /\ \E rp \in RegParamDicts, clob \in SUBSET LstsqOverwrites :
         sh' = [sh EXCEPT !.nev = sh.nev + 1, !.last = "chi2objfunct",
                  !.entry = sh.store,
                  !.store = AfterReturn(EvalCStore(sh.store, rp, clob))]
    /\ UNCHANGED <<fitvars, ec, bn, gd, sw, tc, gv>>

\* gcvobjfunct: one turn of its loop, "A = np.delete(A0,i,0)", ..., and
\* "C = self.eval_C(A,b,W,reg_matrices,reg_params)" on the new arrays
ShareGcvObjective ==
    /\ sh.pc = "record"
    /\ sh.nev < MaxEvals
    /\ \E i \in 1..Len(sh.store["b"].a), rp \in RegParamDicts, clob \in SUBSET LstsqOverwrites :
         LET call == [c \in DOMAIN sh.store |->
                        IF c \in {"A", "b", "W"} THEN Cell(Delete(sh.store[c].a, i))
                        ELSE sh.store[c]]
             ret == AfterReturn(EvalCStore(call, rp, clob))
         IN sh' = [sh EXCEPT !.nev = sh.nev + 1, !.last = "gcvobjfunct",
                     !.entry = sh.store,
                     !.store = [c \in DOMAIN sh.store |->
                                  IF c \in {"A", "b", "W"} THEN sh.store[c] ELSE ret[c]]]
    /\ UNCHANGED <<fitvars, ec, bn, gd, sw, tc, gv>>

\* fit: "C, dC = self.eval_C(A,b,W,reg_matricies,reg_params,calccov=True)",
\* the chi2 of the fit, and the end of the iteration
ShareSolve ==
    /\ sh.pc = "record"
    /\ \E rp \in RegParamDicts, clob \in SUBSET LstsqOverwrites :
         sh' = [sh EXCEPT !.pc = "loop", !.last = "solve",
                  !.entry = sh.store,
                  !.store = AfterReturn(EvalCStore(sh.store, rp, clob))]
    /\ UNCHANGED <<fitvars, ec, bn, gd, sw, tc, gv>>

\* fit: the record is disqualified, "continue"
ShareDisqualify ==
    /\ sh.pc = "record"
    /\ sh' = [sh EXCEPT !.pc = "loop", !.last = "disqualify"]
    /\ UNCHANGED <<fitvars, ec, bn, gd, sw, tc, gv>>

ShareInit ==
    /\ regularization_list \in RegLists
    /\ FitIdle
    /\ \E m \in RegMatrixDicts :
         sh = [pc |-> "regs", model |-> m, ri |-> 1, ncomp |-> [k \in Kinds |-> 0],
               first |-> <<>>, store |-> NoStore, entry |-> NoStore, rec |-> 0,
               nev |-> 0, last |-> "none"]
    /\ ec = Idle /\ bn = Idle /\ gd = Idle /\ sw = Idle
    /\ tc = Idle /\ gv = Idle

ShareNext ==
    \/ ShareRegMatrix \/ ShareFilter \/ ShareChi2Objective \/ ShareGcvObjective
    \/ ShareSolve \/ ShareDisqualify

SpecShare == ShareInit /\ [][ShareNext]_vars

\* ------------------------------------------------- Model.transform_coord
\* R0 is a 3 x npoints array: r, theta (colatitude) and phi (longitude).
RECURSIVE Gcd(_, _)
Gcd(a, b) == IF b = 0 THEN a ELSE Gcd(b, a % b)

\* n/d in lowest terms, d > 0
Frac(n, d) ==
    LET g == Gcd(IF n < 0 THEN -n ELSE n, d)
    IN [c |-> "frac", n |-> n \div g, d |-> d \div g]

RECURSIVE SumF(_, _)
SumF(s, k) == IF k = 0 THEN 0 ELSE SumF(s, k - 1) + s[k].v

\* np.average(s): NaN for an empty array (numpy warns and goes on) and for an
\* array that holds a NaN
Average(s) ==
    IF Len(s) = 0 \/ \E i \in 1..Len(s) : ~IsFinite(s[i]) THEN NanF
    ELSE Frac(SumF(s, Len(s)), Len(s))

\* -1*x
Neg(x) == IF x.c = "frac" THEN [x EXCEPT !.n = -x.n] ELSE x

\* "phi0 = np.average(R0[2])", "theta0 = -1*np.average(R0[1])",
\* "self.cp = [theta0,phi0]"
CenterPoint(R0) == <<Neg(Average(R0[2])), Average(R0[3])>>

\* the center point is computed from the input of every call
RecomputedCenter(obj, R0) == CenterPoint(R0)

\* "try: phi0 = self.cp[1]; theta0 = self.cp[0]" and the handler that runs
\* when the object has no attribute cp: the center point after the statement
CachedCenter(obj, R0) == IF obj.hascp THEN obj.cp ELSE CenterPoint(R0)

\* the rotation by theta0 about k(phi0) and "100*(r/RE-1)", kept as a term
Rotated(R0, theta0, phi0) == [f |-> "rotate", R0 |-> R0, theta0 |-> theta0, phi0 |-> phi0]

\* the inputs of a call
Coords == {NumF(1), NumF(2)}
CoordInputs ==
    UNION {{<<[i \in 1..n |-> NumF(1)], t, p>> : t, p \in [1..n -> Coords]} :
              n \in 0..MaxPoints}
        \cup {<<<<NumF(1)>>, <<NanF>>, <<NumF(1)>>>>}

NoCall == [R0 |-> <<>>, theta0 |-> NanF, phi0 |-> NanF, R_trans |-> <<>>, cp |-> <<>>]

\* Model.__init__: the object has no attribute cp
NewModel == [pc |-> "object", hascp |-> FALSE, cp |-> <<>>, ncalls |-> 0,
             first |-> <<>>, computed |-> 0, last |-> NoCall]

\* one call of transform_coord
TransformCoord ==
    /\ tc.pc = "object"
    /\ tc.ncalls < MaxCalls
    /\ \E R0 \in CoordInputs :
         LET cp == CachedCenter(tc, R0)
             theta0 == cp[1]
             phi0 == cp[2]
         IN tc' = [tc EXCEPT !.hascp = TRUE, !.cp = cp, !.ncalls = tc.ncalls + 1,
                     !.first = IF tc.ncalls = 0 THEN R0 ELSE tc.first,
                     !.computed = IF tc.hascp THEN tc.computed ELSE tc.computed + 1,
                     !.last = [R0 |-> R0, theta0 |-> theta0, phi0 |-> phi0,
                               R_trans |-> Rotated(R0, theta0, phi0), cp |-> cp]]
    /\ UNCHANGED <<fitvars, ec, bn, gd, sw, sh, gv>>

CoordInit ==
    /\ regularization_list = <<"curvature">>
    /\ FitIdle
    /\ tc = NewModel
    /\ ec = Idle /\ bn = Idle /\ gd = Idle /\ sw = Idle
    /\ sh = Idle /\ gv = Idle

CoordNext == TransformCoord

SpecCoord == CoordInit /\ [][CoordNext]_vars

\* ------------------------------------------------------- Fit.gcvobjfunct
\* 10^alpha, scaled to an integer like the parameters of RegParamDicts
GcvPowers == {1, 3}

\* "reg_params[rl] = np.power(10.,alpha)" for rl = reg, "0." for the others
GcvObjRegParams(reg, p) ==
    [k \in Range(regularization_list) |-> IF k = reg THEN p ELSE 0]

\* "(val-bi)**2*Wi" with "val = np.squeeze(np.dot(Ai,C))", kept as a term
Residual(Ai, bi, Wi, C) == [f |-> "(Ai.C-bi)^2*Wi", Ai |-> Ai, bi |-> bi, Wi |-> Wi, C |-> C]

\* "sum(residuals)", kept as a term
SumOf(residuals) == [f |-> "sum", terms |-> residuals]

\* gcvobjfunct up to its loop: the dictionary of the parameters
GcvObjEnter ==
    /\ gv.pc = "idle"
    /\ \E n \in 0..MaxPoints :
         \E smp \in [1..n -> Samples], rm \in RegMatrixDicts,
            reg \in Range(regularization_list), p \in GcvPowers :
           LET A0 == [i \in 1..n |-> smp[i].row]
               b0 == [i \in 1..n |-> <<smp[i].b>>]
               W0 == [i \in 1..n |-> <<smp[i].W>>]
           IN gv' = [pc |-> "loop", A0 |-> A0, b0 |-> b0, W0 |-> W0,
                     given |-> [A0 |-> A0, b0 |-> b0, W0 |-> W0],
                     reg_matrices |-> rm, reg |-> reg, p |-> p,
                     reg_params |-> GcvObjRegParams(reg, p),
                     i |-> 0, refits |-> 0, residuals |-> <<>>, score |-> NoTerm]
    /\ UNCHANGED <<fitvars, ec, bn, gd, sw, sh, tc>>

\* one turn of "for i in range(len(b0))": the sample, the arrays without
\* it, the coefficients of eval_C and the residual
GcvObjRefit ==
    /\ gv.pc = "loop"
    /\ gv.i < Len(gv.b0)
    /\ LET i == gv.i + 1
           Ai == gv.A0[i]
           bi == gv.b0[i]
           Wi == gv.W0[i]
           A == Delete(gv.A0, i)
           b == Delete(gv.b0, i)
           W == Delete(gv.W0, i)
           C == lstsq(EvalC_X(A, W, gv.reg_params, gv.reg_matrices, Len(b)),
                      EvalC_y(A, b, W, Len(b)))
       IN gv' = [gv EXCEPT !.i = i, !.refits = gv.refits + 1,
                    !.residuals = Append(gv.residuals, Residual(Ai, bi, Wi, C))]
    /\ UNCHANGED <<fitvars, ec, bn, gd, sw, sh, tc>>

\* "return sum(residuals)"
GcvObjReturn ==
    /\ gv.pc = "loop"
    /\ gv.i = Len(gv.b0)
    /\ gv' = [gv EXCEPT !.pc = "returned", !.score = SumOf(gv.residuals)]
    /\ UNCHANGED <<fitvars, ec, bn, gd, sw, sh, tc>>

GcvObjInit ==
    /\ regularization_list \in RegLists
    /\ FitIdle
    /\ gv = Idle
    /\ ec = Idle /\ bn = Idle /\ gd = Idle /\ sw = Idle
    /\ sh = Idle /\ tc = Idle

GcvObjNext == GcvObjEnter \/ GcvObjRefit \/ GcvObjReturn

SpecGcv == GcvObjInit /\ [][GcvObjNext]_vars

\* ------------------------------------------------------------------ claims
\* records whose result has been appended
Processed ==
    IF pc \in {"regs", "read", "loop", "done"} THEN rec
    ELSE IF rec = 0 THEN 0 ELSE rec - 1

\* C1: the three result lists always have one entry per processed record,
\* slot i was computed from record i of the time-filtered timestamp array,
\* and at the end each list has one entry per row of self.time.
C1_ResultsAligned ==
    /\ Len(Coeffs) = Processed
    /\ Len(Covariance) = Processed
    /\ Len(chi_sq) = Processed
    /\ origin = SubSeq(utime, 1, Processed)
    /\ pc = "done" => /\ Len(Coeffs) = Len(time)
                      /\ Len(Covariance) = Len(time)
                      /\ Len(chi_sq) = Len(time)
                      /\ origin = time

C1_Witness ==
    /\ pc = "done"
    /\ Len(time) = MaxRecords
    /\ path[1] = "placeholder"
    /\ path[Len(path)] = "solved"

AllNaNResult(i) ==
    /\ DOMAIN Coeffs[i] = 1..nbasis
    /\ \A j \in 1..nbasis : Coeffs[i][j] = "nan"
    /\ DOMAIN Covariance[i] = 1..nbasis
    /\ \A j \in 1..nbasis :
         /\ DOMAIN Covariance[i][j] = 1..nbasis
         /\ \A k \in 1..nbasis : Covariance[i][j][k] = "nan"
    /\ chi_sq[i] = "nan"

SomeKindNaN ==
    \E i \in 1..Len(regularization_list) : reg_params[regularization_list[i]].t = "nan"

\* C2: the record just appended has the all-NaN placeholder (vector of
\* length nbasis, nbasis x nbasis matrix, NaN chi-squared) if the search
\* returned NaN for some configured kind, and is the solved fit, never the
\* placeholder, if every searched parameter is a number.
C2_NaNParamDisqualifies ==
    (pc \in {"loop", "done"} /\ rec > 0) =>
        /\ Len(Coeffs) = rec /\ Len(Covariance) = rec /\ Len(chi_sq) = rec
        /\ SomeKindNaN => AllNaNResult(rec) /\ path[rec] = "placeholder"
        /\ ~SomeKindNaN => ~AllNaNResult(rec) /\ path[rec] = "solved"

C2_Witness ==
    /\ pc = "loop" /\ rec > 0
    /\ Len(regularization_list) = 2
    /\ reg_params[regularization_list[1]].t = "pow10"
    /\ reg_params[regularization_list[2]].t = "nan"
    /\ path[rec] = "placeholder"

\* C3: a record whose values are all non-finite (no sample left by the
\* filter) gets the all-NaN result and no exception leaves Fit.fit, for
\* every method and every regularization list.
C3_EmptyRecordYieldsNaN ==
    (dataRead /\ rec > 0 /\ N = 0) =>
        /\ pc # "raised"
        /\ pc \in {"loop", "done"} => AllNaNResult(rec)

\* C4: once the records are being processed no failure of a record's
\* parameter search leaves Fit.fit.
C4_SearchFailureNeverAborts == dataRead => pc # "raised"

\* a strategy call for some kind is in progress
InStrategy == pc \in {"chi2for", "chi2while", "chi2next", "brent", "gcv"}
InFindRegParam == InStrategy \/ pc \in {"search", "searched"}
CallKinds == [i \in 1..Len(calls) |-> calls[i].kind]

\* C5: find_reg_param calls the strategy once per configured kind in list
\* order and returns one entry per configured kind; a kind whose strategy
\* raised ValueError (no bracket in chi2, minimizer failure in gcv) has NaN,
\* the search goes on with the next kind, and every other entry is what its
\* own strategy call returned.
C5_OneEntryPerKind ==
    /\ InFindRegParam =>
         /\ CallKinds = SubSeq(regularization_list, 1, Len(calls))
         /\ DOMAIN reg_params = Range(CallKinds)
         /\ \A i \in 1..Len(calls) :
              reg_params[calls[i].kind] =
                 IF calls[i].out.t = "ValueError" THEN ParamNaN ELSE calls[i].out
    /\ (pc = "search" /\ reg_method = "chi2" /\ tried # <<>>
          /\ tried[Len(tried)] = "none") =>
         /\ reg_params[regularization_list[ki - 1]] = ParamNaN
         /\ ki = Len(calls) + 1
    /\ pc = "searched" =>
         /\ CallKinds = regularization_list
         /\ DOMAIN reg_params = Range(regularization_list)

C5_Witness ==
    /\ pc = "searched"
    /\ Len(regularization_list) = 2
    /\ calls[1].out.t = "pow10"
    /\ calls[2].out.t = "ValueError"

FirstUnsupported ==
    CHOOSE i \in 1..Len(regularization_list) :
        /\ regularization_list[i] \notin supported
        /\ \A j \in 1..(i - 1) : regularization_list[j] \in supported

\* C6: when the list names a kind the model does not support, the session
\* ends in Init with the KeyError of that kind: the data source is never
\* read, no record is filtered, searched or solved, and no result is appended.
C6_UnsupportedKindFailsFirst ==
    (\E i \in 1..Len(regularization_list) : regularization_list[i] \notin supported) =>
        /\ pc \in {"regs", "raised"}
        /\ ~dataRead
        /\ rec = 0 /\ calls = <<>> /\ evals = 0
        /\ Coeffs = <<>> /\ Covariance = <<>> /\ chi_sq = <<>>
        /\ ri <= FirstUnsupported
        /\ pc = "raised" => exc = "KeyError" /\ ri = FirstUnsupported

C6_Witness ==
    /\ pc = "raised"
    /\ exc = "KeyError"
    /\ Len(regularization_list) = 2
    /\ ri = 2
    /\ reg_matricies = {regularization_list[1]}

\* C7: with method manual every kind gets the constant of Fit.manual through
\* the call find_reg_param makes for every method, and the call yields a
\* number, not a failure.
C7_ManualYieldsConstant ==
    reg_method = "manual" =>
        /\ exc \notin {"TypeError", "NameError"}
        /\ \A i \in 1..Len(calls) : calls[i].out = manual(calls[i].kind)

\* the kind of the chi2 call in progress or just ended
SearchedKind ==
    IF pc = "search" THEN regularization_list[ki - 1] ELSE regularization_list[ki]

\* C8: in the chi2 strategy, once chi2(0) - nu < 0 has been evaluated for the
\* target being tried, that evaluation is the last one of the call and the
\* strategy has returned exactly 0: no stepping, no further target, no
\* root-finder call.
C8_EarlyExitReturnsZero ==
    /\ earlyAt > 0 =>
         /\ pc = "search"
         /\ evals = earlyAt
         /\ solverEvals = 0
         /\ lastEval.alpha = 0 /\ Lt0(lastEval.val)
         /\ calls[Len(calls)].out = ParamZero
         /\ reg_params[SearchedKind] = ParamZero
         /\ tried[Len(tried)] = "early"
    /\ pc \in {"chi2while", "chi2next", "brent"} =>
         ~Lt0(Minus(Chi2Sum(ObjRegParams(0, rl), rl), nu))

C8_Witness ==
    /\ earlyAt > 0
    /\ sfi = 3
    /\ evals = earlyAt
    /\ calls[Len(calls)].out = ParamZero

\* the objective of the current chi2 call for target t at alpha = a
ObjAt(t, a) ==
    Minus(IF N = 0 THEN Fin(0) ELSE CurveAt(curve, a), N * scale_factors[t])
Pos(x) == ~x.nan /\ x.v > 0
EarlyAt(t) == Lt0(ObjAt(t, 0))
\* stepping down from alpha = 0, where the objective is positive, meets
\* within [-100, -1] an alpha at which the objective is no longer positive
BracketAt(t) == Pos(ObjAt(t, 0)) /\ \E a \in (-AlphaLimit)..(-1) : ~Pos(ObjAt(t, a))
YieldAt(t) == IF EarlyAt(t) THEN "early" ELSE IF BracketAt(t) THEN "bracket" ELSE "none"
Chi2Ended == reg_method = "chi2" /\ (pc = "brent" \/ (pc = "search" /\ tried # <<>>))

\* C9: the chi2 strategy tries 0.6N, 0.7N, 0.8N, 0.9N, 1.0N in that order,
\* stops at the first target with an early exit or a bracket, and raises the
\* no-root ValueError exactly when none of the five targets has either.
C9_TargetsInOrder ==
    /\ scale_factors = <<6, 7, 8, 9, 10>>
    /\ (reg_method = "chi2" /\ (InStrategy \/ Chi2Ended)) =>
         /\ Len(tried) <= Len(scale_factors)
         /\ \A t \in 1..(Len(tried) - 1) : tried[t] = "none"
         /\ (pc = "chi2for" \/ Chi2Ended) =>
               \A t \in 1..Len(tried) : tried[t] = YieldAt(t)
         /\ InStrategy /\ pc # "brent" => sfi = Len(tried) + 1
         /\ pc \in {"chi2while", "chi2next", "brent"} =>
               lastEval.nu = N * scale_factors[sfi]
    /\ Chi2Ended =>
         /\ sfi = Len(tried)
         /\ (calls # <<>> /\ pc = "search" /\ calls[Len(calls)].out.t = "ValueError")
               <=> (pc = "search" /\ \A t \in 1..Len(scale_factors) : YieldAt(t) = "none")
         /\ tried[sfi] # "none" =>
               /\ \A t \in 1..(sfi - 1) : YieldAt(t) = "none"
               /\ YieldAt(sfi) # "none"
         /\ tried[sfi] = "none" => sfi = Len(scale_factors)

C9_Witness ==
    /\ Chi2Ended
    /\ pc = "brent"
    /\ tried = <<"none", "bracket">>

\* C10: every objective evaluation of a chi2 or gcv search solves with the
\* searched kind's parameter equal to 10^alpha and every other configured
\* kind's parameter exactly 0, whatever was found for the kinds searched
\* before.
C10_OtherKindsZero ==
    evals > 0 =>
        /\ InStrategy \/ pc = "search" \/ pc = "raised"
        /\ lastEval.reg = SearchedKind \/ pc = "raised"
        /\ DOMAIN lastEval.params = Range(regularization_list)
        /\ \A k \in Range(regularization_list) :
             lastEval.params[k] =
                IF k = lastEval.reg THEN Pow10(lastEval.alpha) ELSE ParamZero

C10_Witness ==
    /\ evals > 0
    /\ InStrategy
    /\ ki = 2
    /\ reg_params[regularization_list[1]].t = "pow10"
    /\ lastEval.reg = regularization_list[2]

\* sum of f[1] .. f[n]
RECURSIVE SumTo(_, _)
SumTo(f, n) == IF n = 0 THEN 0 ELSE f[n] + SumTo(f, n - 1)

\* the weighted normal equations of the samples: sum_i W_i a_i a_i^T and
\* sum_i W_i b_i a_i
NormalMatrix(A, W, n) ==
    [k \in 1..nbasis |-> [l \in 1..nbasis |->
        SumTo([i \in 1..n |-> W[i][1] * A[i][k] * A[i][l]], n)]]
NormalRhs(A, b, W, n) ==
    [k \in 1..nbasis |-> <<SumTo([i \in 1..n |-> W[i][1] * b[i][1] * A[i][k]], n)>>]

AllParamsZero == \A i \in 1..Len(regularization_list) : ec.reg_params[regularization_list[i]] = 0

\* C11: when every configured kind's parameter is 0, eval_C hands lstsq the
\* matrix A^T W A and the right-hand side A^T W b of the weighted normal
\* equations, whatever the regularization matrices are, so its result is the
\* least-squares solution of the weighted normal equations.
C11_ZeroParamsGiveNormalEquations ==
    (ec.pc \in {"system", "solved", "returned"} /\ AllParamsZero) =>
        /\ ec.X = NormalMatrix(ec.A, ec.W, ec.n)
        /\ ec.y = NormalRhs(ec.A, ec.b, ec.W, ec.n)
        /\ ec.pc # "system" =>
              ec.C = lstsq(NormalMatrix(ec.A, ec.W, ec.n), NormalRhs(ec.A, ec.b, ec.W, ec.n))

C11_Witness ==
    /\ ec.pc = "returned"
    /\ AllParamsZero
    /\ ec.n = MaxPoints
    /\ Len(regularization_list) = 2
    /\ ec.A[1] # ec.A[2]
    /\ ec.W[1] # ec.W[2]
    /\ ec.C.a # ec.reg_matrices["curvature"]

\* the permutations of 1..n, and the rows of M taken in the order p
Perms(n) == {p \in [1..n -> 1..n] : \A i, j \in 1..n : p[i] = p[j] => i = j}
Permuted(M, p, n) == [i \in 1..n |-> M[p[i]]]

\* C12: eval_C called with the rows of A, b and W permuted alike builds the
\* same X and the same y, and so hands lstsq the same problem and returns
\* the same C.
C12_RowOrderInvariant ==
    ec.pc \in {"system", "solved", "returned"} =>
        \A p \in Perms(ec.n) :
            LET Ap == Permuted(ec.A, p, ec.n)
                bp == Permuted(ec.b, p, ec.n)
                Wp == Permuted(ec.W, p, ec.n)
            IN /\ EvalC_X(Ap, Wp, ec.reg_params, ec.reg_matrices, ec.n) = ec.X
               /\ EvalC_y(Ap, bp, Wp, ec.n) = ec.y
               /\ ec.pc # "system" => ec.C = lstsq(ec.X, ec.y)

C12_Witness ==
    /\ ec.pc = "returned"
    /\ ec.n = MaxPoints
    /\ ec.A[1] # ec.A[2]
    /\ ec.b[1] # ec.b[2]
    /\ ec.W[1] # ec.W[2]
    /\ \E k \in Range(regularization_list) : ec.reg_params[k] # 0
    /\ ec.C.a # NormalMatrix(ec.A, ec.W, ec.n)

\* C13: for an index n of the basis (0 <= n < nbasis = maxk*maxl^2) the
\* triple (k, l, m) of basis_numbers recomposes to n as
\* k*maxl^2 + l*(l+1) + m, and no other index of the basis has that triple.
C13_BasisNumbersBijective ==
    bn.pc = "returned" =>
        /\ bn.nbasis = bn.maxk * bn.maxl * bn.maxl
        /\ bn.k * bn.maxl * bn.maxl + bn.l * (bn.l + 1) + bn.m = bn.n
        /\ \A n2 \in 0..(bn.nbasis - 1) :
             n2 # bn.n => basis_numbers(bn.maxl, n2) # <<bn.k, bn.l, bn.m>>

C13_Witness ==
    /\ bn.pc = "returned"
    /\ bn.maxk = MaxMaxk /\ bn.maxl = MaxMaxl
    /\ bn.n = bn.nbasis - 1
    /\ bn.k > 0 /\ bn.l > 0 /\ bn.m > 0

\* C14: the triple of an index of the basis has 0 <= k < maxk, 0 <= l < maxl
\* and -l <= m <= l.
C14_BasisNumbersInRange ==
    bn.pc = "returned" =>
        /\ 0 <= bn.k /\ bn.k < bn.maxk
        /\ 0 <= bn.l /\ bn.l < bn.maxl
        /\ -bn.l <= bn.m /\ bn.m <= bn.l

C14_Witness ==
    /\ bn.pc = "returned"
    /\ bn.maxl = MaxMaxl
    /\ bn.l = bn.maxl - 1
    /\ bn.m = -bn.l /\ bn.m < 0
    /\ bn.k = bn.maxk - 1 /\ bn.k > 0

\* the record whose filtered inputs the state holds
CurrentRecord == gd.recs[gd.r]
InInputs(p) == \E i \in 1..Len(gd.inputs.pts) : gd.inputs.pts[i] = p
\* an error that is zero, negative or not finite
UnusableError(e) == e.c # "fin" \/ e.v <= 0
\* a weight that is finite and not negative
UsableWeight(w) == w.c = "recip" \/ (w.c = "fin" /\ w.v >= 0)

ErrorsPositive ==
    /\ \A i \in 1..Len(gd.inputs.er0) :
         /\ IsFinite(gd.inputs.er0[i]) /\ gd.inputs.er0[i].v > 0
         /\ UsableWeight(gd.inputs.W[i])
    /\ \A p \in 1..gd.file.npts :
         UnusableError(gd.file.error[CurrentRecord][p]) => ~InInputs(p)

OutsideOpen(x, lim) == ~(GtF(x, lim[1]) /\ LtF(x, lim[2]))
Failing(r, p) ==
    \/ OutsideOpen(gd.file.error[r][p], gd.errlim)
    \/ OutsideOpen(gd.chi2[r][p], gd.chi2lim)
    \/ gd.file.fitcode[r][p] \notin gd.goodfitcode

\* C16: get_data returns every sample that fails a quality check with value
\* NaN and error NaN and every other sample with its value and error
\* unchanged; a failing sample is in no record's filtered inputs and the
\* inputs hold the file's value and error of their samples.
C16_FailingSamplesMasked ==
    gd.pc # "config" =>
        /\ gd.exc # "IndexError"
        /\ gd.exc # "IndexError" =>
             \A r \in 1..gd.file.nrec : \A i \in 1..Len(gd.cols) :
                 IF Failing(r, gd.cols[i])
                 THEN gd.value[r][i] = NanF /\ gd.error[r][i] = NanF
                 ELSE /\ gd.value[r][i] = gd.file.value[r][gd.cols[i]]
                      /\ gd.error[r][i] = gd.file.error[r][gd.cols[i]]
        /\ (gd.pc = "loop" /\ gd.r > 0) =>
             /\ \A p \in 1..gd.file.npts : Failing(CurrentRecord, p) => ~InInputs(p)
             /\ \A i \in 1..Len(gd.inputs.pts) :
                  /\ gd.inputs.ne0[i] = gd.file.value[CurrentRecord][gd.inputs.pts[i]]
                  /\ gd.inputs.er0[i] = gd.file.error[CurrentRecord][gd.inputs.pts[i]]

NonFiniteSample(r, p) ==
    \/ ~IsFinite(gd.file.latitude[p])
    \/ ~IsFinite(gd.file.longitude[p])
    \/ ~IsFinite(gd.file.altitude[p])
    \/ ~IsFinite(gd.file.value[r][p])

\* C17: a sample with a non-finite latitude, longitude, altitude or value is
\* in no record's filtered inputs (A, b, W), and its coordinates make no
\* step of the session raise.
C17_NonFiniteSamplesExcluded ==
    /\ gd.pc = "raised" => gd.exc # "ValueError"
    /\ (gd.pc = "loop" /\ gd.r > 0) =>
         \A p \in 1..gd.file.npts : NonFiniteSample(CurrentRecord, p) => ~InInputs(p)

IsParam(p) == p.t \in {"zero", "pow10"}
\* p <= q for two returned parameters: 0 is below every 10^a, and 10^a with a
\* in one bracket is not above 10^a with a in a bracket that is not lower
ParamLeq(p, q) ==
    \/ p.t = "zero"
    \/ p.t = "pow10" /\ q.t = "pow10" /\ p.lo <= q.lo /\ p.hi <= q.hi

\* C18 as stated: for one record's data whose chi2 does not decrease with
\* alpha, the parameter returned for the larger target is never smaller
\* than the one returned for the smaller target, early exits included.
C18_LargerTargetLargerParam ==
    (sw.pc = "searched" /\ sw.nu1 < sw.nu2 /\ IsParam(sw.out1) /\ IsParam(sw.out2)) =>
        ParamLeq(sw.out1, sw.out2)

\* C18: for one record's data whose chi2 does not decrease with alpha and
\* two targets nu1 < nu2: if both searches end with a bracket, the bracket
\* of nu2 is not below the bracket of nu1; if chi2(0) < nu1 both searches
\* return 0 by the early exit; a search for nu2 that ends by the early exit
\* returns 0 also when the search for nu1 returned a positive parameter.
C18_LargerTargetBracketNotLower ==
    (sw.pc = "searched" /\ sw.nu1 < sw.nu2) =>
        /\ (sw.out1.t = "pow10" /\ sw.out2.t = "pow10") => ParamLeq(sw.out1, sw.out2)
        /\ Lt0(ObjOf(sw.curve, 0, sw.nu1)) => sw.out1 = ParamZero /\ sw.out2 = ParamZero
        /\ sw.out2.t = "zero" <=> Lt0(ObjOf(sw.curve, 0, sw.nu2))
        /\ (sw.out1.t = "pow10" /\ IsParam(sw.out2) /\ ~ParamLeq(sw.out1, sw.out2)) =>
              sw.out2 = ParamZero

C18_Witness ==
    /\ sw.pc = "searched"
    /\ sw.nu1 < sw.nu2
    /\ sw.out1.t = "pow10" /\ sw.out2.t = "pow10"
    /\ sw.out1.hi < sw.out2.lo

\* for target t the objective is positive at alpha = 0 and stops being
\* positive at an alpha the stepping evaluates (-1 .. -101)
HasChange(t) ==
    /\ Pos(ObjAt(t, 0))
    /\ \E a \in (-AlphaLimit - 1)..(-1) : ~Pos(ObjAt(t, a))
\* the first such alpha, stepping down
FirstChange(t) ==
    CHOOSE a \in (-AlphaLimit - 1)..(-1) :
        /\ ~Pos(ObjAt(t, a))
        /\ \A b \in (a + 1)..(-1) : Pos(ObjAt(t, b))
\* the objective is zero or negative there
SignChange(t) == HasChange(t) /\ ~ObjAt(t, FirstChange(t)).nan

\* what the root-finder is given and returns: the interval [alpha, alpha+1]
\* with ends of unlike sign, evaluations with the target of the bracket, and
\* 10^a for an a of the interval
BracketHandedOver ==
    /\ pc = "brent" =>
         /\ bracket
         /\ alpha0 = alpha + 1
         /\ Pos(ObjAt(sfi, alpha0)) /\ ~Pos(ObjAt(sfi, alpha))
         /\ ~ProdPos(ObjAt(sfi, alpha), ObjAt(sfi, alpha0))
         /\ val = ObjAt(sfi, alpha) /\ val0 = ObjAt(sfi, alpha0)
         /\ HasChange(sfi) /\ alpha = FirstChange(sfi)
         /\ solverEvals > 0 =>
              /\ lastEval.nu = N * scale_factors[sfi]
              /\ alpha <= lastEval.alpha /\ lastEval.alpha <= alpha0
    /\ (reg_method = "chi2" /\ pc = "search" /\ tried # <<>>
          /\ tried[Len(tried)] = "bracket") =>
         /\ alpha0 = alpha + 1
         /\ calls[Len(calls)].out = Pow10In(alpha, alpha + 1)
         /\ calls[Len(calls)].out.lo <= calls[Len(calls)].out.hi

\* C19 as stated: whenever the objective is positive at alpha = 0 and first
\* changes sign at an alpha the stepping evaluates, [alpha, alpha+1] is the
\* bracket handed to the root-finder.
C19_SignChangeBracketsRoot ==
    /\ (reg_method = "chi2" /\ pc = "chi2next" /\ SignChange(sfi)) =>
         bracket /\ alpha = FirstChange(sfi) /\ alpha0 = alpha + 1
    /\ BracketHandedOver

\* C19: whenever the objective is positive at alpha = 0 and first changes
\* sign at an evaluated alpha >= -100, [alpha, alpha+1] is the bracket handed
\* to the root-finder, its ends do not have the same strict sign, the
\* refinement uses the target of the bracket, and the parameter returned is
\* 10^a with alpha <= a <= alpha+1; a sign change first seen at alpha = -101
\* is discarded and the target counts as having no bracket.
C19_SignChangeAboveLimitBracketsRoot ==
    /\ (reg_method = "chi2" /\ pc = "chi2next" /\ SignChange(sfi)) =>
         IF FirstChange(sfi) >= -AlphaLimit
         THEN bracket /\ alpha = FirstChange(sfi) /\ alpha0 = alpha + 1
         ELSE ~bracket /\ alpha = -AlphaLimit - 1
    /\ BracketHandedOver

C19_Witness ==
    /\ reg_method = "chi2" /\ pc = "search"
    /\ tried = <<"bracket">>
    /\ SignChange(sfi)
    /\ alpha = -AlphaLimit
    /\ calls[Len(calls)].out = Pow10In(-AlphaLimit, -AlphaLimit + 1)
    /\ solverEvals > 0

\* the bracket search of Fit.chi2 is at work on a target
InBracketSearch == reg_method = "chi2" /\ pc \in {"chi2for", "chi2while", "chi2next"}
\* alpha = 0, -1, ..., -101
EvalsPerTarget == AlphaLimit + 2
\* a number that every step of the bracket search decreases
Rank ==
    (Len(scale_factors) - sfi) * (EvalsPerTarget + 3)
    + (IF pc = "chi2for" THEN EvalsPerTarget + 2
       ELSE IF pc = "chi2while" THEN alpha + EvalsPerTarget + 1
       ELSE 0)

BracketSearchBounded ==
    /\ InBracketSearch =>
         /\ sfi \in 1..Len(scale_factors)
         /\ alpha >= -AlphaLimit - 1 /\ alpha <= 0
         /\ evals <= sfi * EvalsPerTarget
         /\ pc # "chi2for" =>
              /\ lastEval.alpha = alpha
              /\ evals <= (sfi - 1) * EvalsPerTarget + (1 - alpha)
         /\ pc = "chi2while" => alpha >= -AlphaLimit
         /\ pc = "chi2next" =>
              IF alpha < -AlphaLimit
              THEN /\ ~bracket
                   /\ \A a \in (-AlphaLimit)..0 : Pos(ObjAt(sfi, a))
              ELSE ~ProdPos(val0, val)
         /\ ENABLED (Chi2For \/ Chi2Step \/ Chi2LoopExit \/ Chi2Bracketed
                       \/ Chi2NextTarget \/ Chi2NoRoot)
    /\ (reg_method = "chi2" /\ pc = "search" /\ tried # <<>>) =>
         \/ tried[Len(tried)] = "early" /\ calls[Len(calls)].out = ParamZero
         \/ tried[Len(tried)] = "bracket" /\ calls[Len(calls)].out.t = "pow10"
         \/ /\ tried[Len(tried)] = "none" /\ Len(tried) = Len(scale_factors)
            /\ calls[Len(calls)].out = ValueErrorOut

BracketSearchStep ==
    InBracketSearch =>
        /\ InBracketSearch' => Rank' < Rank
        /\ ~InBracketSearch' =>
             \/ pc' = "brent" /\ bracket
             \/ pc' = "search" /\ calls'[Len(calls')].out \in {ParamZero, ValueErrorOut}
        /\ evals' # evals =>
             /\ evals' = evals + 1
             /\ lastEval'.alpha = IF pc = "chi2for" THEN 0 ELSE lastEval.alpha - 1
             /\ lastEval'.alpha >= -AlphaLimit - 1

\* C20: the bracket search terminates: every step of it decreases a bounded
\* rank and some step is always possible; each target is evaluated at
\* alpha = 0, -1, -2, ... and never below -101, at most 102 times; the
\* stepping of a target is given up only once alpha has passed -100 with the
\* objective positive at every alpha from 0 to -100; and whatever the
\* objective values, NaN included, the strategy ends by returning 0, by
\* calling the root-finder on a bracket, or by the no-root failure.
C20_BracketSearchTerminates == []BracketSearchBounded /\ [][BracketSearchStep]_vars

C20_Witness ==
    /\ reg_method = "chi2" /\ pc = "chi2next"
    /\ sfi = Len(scale_factors)
    /\ alpha = -AlphaLimit - 1
    /\ ~bracket
    /\ evals = Len(scale_factors) * EvalsPerTarget


\* ---------------------------------------------------------------- C21
\* what the covariance of a call is when the pseudo-inverse is taken of the
\* matrix that was built from the call's arguments
CovarianceOfBuilt ==
    [f |-> "H.AWA.Ht",
     H |-> pinv(EvalC_X(ec.A, ec.W, ec.reg_params, ec.reg_matrices, ec.n), TRUE),
     AWA |-> EvalC_AWA(ec.A, ec.W, ec.n)]

SharedIntact ==
    \A c \in DOMAIN sh.entry :
        /\ c \in DOMAIN sh.store
        /\ sh.store[c].live
        /\ sh.store[c].a = sh.entry[c].a

\* C22: every regularization matrix is computed once, in the session's
\* initialisation before the first record, and keeps the value it had when
\* first computed through every record, objective evaluation and eval_C
\* call; the A, b and W given to eval_C are after the call what they were
\* before it.
C22_RegMatricesComputedOnceReadOnly ==
    /\ \A k \in Kinds : sh.ncomp[k] <= 1
    /\ sh.pc = "regs" => sh.rec = 0 /\ sh.last = "none"
    /\ sh.pc # "regs" =>
         /\ \A k \in Range(regularization_list) : sh.ncomp[k] = 1
         /\ DOMAIN sh.first = Range(regularization_list)
    /\ \A k \in DOMAIN sh.first :
         /\ k \in DOMAIN sh.store
         /\ sh.store[k].live
         /\ sh.store[k].a = sh.first[k]
    /\ sh.last \in {"chi2objfunct", "gcvobjfunct", "solve"} => SharedIntact

\* a second record of MaxPoints samples has been solved with covariance, the
\* session having two kinds
C22_Witness ==
    /\ sh.pc = "loop"
    /\ sh.rec = 2
    /\ sh.last = "solve"
    /\ Len(sh.store["A"].a) = MaxPoints
    /\ Len(regularization_list) = 2

ColOf(p) == CHOOSE i \in 1..Len(gd.cols) : gd.cols[i] = p

\* the arrays get_data returned are what they were when it returned
ReturnedArraysKept ==
    /\ gd.latitude = [i \in 1..Len(gd.cols) |-> gd.file.latitude[gd.cols[i]]]
    /\ gd.longitude = [i \in 1..Len(gd.cols) |-> gd.file.longitude[gd.cols[i]]]
    /\ gd.altitude = [i \in 1..Len(gd.cols) |-> gd.file.altitude[gd.cols[i]]]
    /\ \A r \in 1..gd.file.nrec : \A i \in 1..Len(gd.cols) :
         /\ gd.value[r][i] = MaskBad(gd.file.value[r][gd.cols[i]], gd.bad[r][gd.cols[i]])
         /\ gd.error[r][i] = MaskBad(gd.file.error[r][gd.cols[i]], gd.bad[r][gd.cols[i]])

\* C24: the filter of a record keeps exactly the returned samples of the
\* record whose value is finite, in their original order; lat0, lon0, alt0,
\* er0 and ne0 have one entry per kept sample, entry j of each (and so row j
\* of A, b and W) comes from the same sample; and the arrays shared by the
\* records are never modified, whatever was masked in earlier records.
C24_FilterKeepsArraysAligned ==
    /\ gd.pc \in {"hull", "loop"} => ReturnedArraysKept
    /\ (gd.pc = "loop" /\ gd.r > 0) =>
         LET inp == gd.inputs
             n == Len(inp.pts)
         IN /\ Len(inp.lat0) = n /\ Len(inp.lon0) = n /\ Len(inp.alt0) = n
            /\ Len(inp.er0) = n /\ Len(inp.ne0) = n /\ Len(inp.W) = n
            /\ \A i, j \in 1..n : i < j => inp.pts[i] < inp.pts[j]
            /\ {inp.pts[j] : j \in 1..n}
                 = {gd.cols[i] : i \in {k \in 1..Len(gd.cols) :
                                           IsFinite(gd.value[CurrentRecord][k])}}
            /\ \A j \in 1..n :
                 /\ inp.lat0[j] = gd.file.latitude[inp.pts[j]]
                 /\ inp.lon0[j] = gd.file.longitude[inp.pts[j]]
                 /\ inp.alt0[j] = gd.file.altitude[inp.pts[j]]
                 /\ inp.ne0[j] = gd.value[CurrentRecord][ColOf(inp.pts[j])]
                 /\ inp.er0[j] = gd.error[CurrentRecord][ColOf(inp.pts[j])]
                 /\ inp.W[j] = PowM2(inp.er0[j])

\* the second record keeps every point although the first record lost one
C24_Witness ==
    /\ gd.pc = "loop"
    /\ gd.r = 2
    /\ Len(gd.cols) = MaxPoints
    /\ Len(gd.inputs.pts) = MaxPoints
    /\ \E i \in 1..Len(gd.cols) : ~IsFinite(gd.value[gd.recs[1]][i])

\* ---------------------------------------------------------------- C25
\* the record taken by Filter is in its parameter search or at the decision
InRecord == InStrategy \/ pc \in {"search", "searched"}

RecordOrder ==
    /\ InRecord => rec > 0 /\ Len(path) = rec - 1 /\ Len(Coeffs) = rec - 1
    /\ pc = "searched" =>
         /\ Len(calls) = Len(regularization_list)
         /\ ENABLED (Disqualify \/ Solve)
    /\ pc = "loop" =>
         /\ Len(path) = rec
         /\ ENABLED (Filter \/ Finish)

RecordStep ==
    \* Filter takes the next record only between two records
    /\ rec' # rec =>
         /\ pc = "loop" /\ pc' = "search"
         /\ rec' = rec + 1
         /\ calls' = <<>>
         /\ path' = path /\ Coeffs' = Coeffs /\ Covariance' = Covariance /\ chi_sq' = chi_sq
    \* the search has returned when the decision is reached
    /\ (pc' = "searched" /\ pc # "searched") =>
         pc = "search" /\ ki > Len(regularization_list) /\ rec' = rec
    \* the decision appends the placeholder or the solved and scored fit,
    \* once, and goes back to the loop
    /\ pc = "searched" =>
         /\ path' = Append(path, IF SomeKindNaN THEN "placeholder" ELSE "solved")
         /\ pc' = "loop" /\ rec' = rec
    \* nothing else appends, and no appended slot is written again
    /\ pc # "searched" =>
         path' = path /\ Coeffs' = Coeffs /\ Covariance' = Covariance /\ chi_sq' = chi_sq
    /\ \A i \in 1..Len(path) :
         /\ path'[i] = path[i] /\ Coeffs'[i] = Coeffs[i]
         /\ Covariance'[i] = Covariance[i] /\ chi_sq'[i] = chi_sq[i]

\* C25: a record is filtered, then searched, and only when its search has
\* returned is it either disqualified (some searched parameter NaN: the
\* placeholder is appended and the final solve and the scoring are not
\* made) or solved with covariance, scored and appended; after either the
\* loop goes on with the next record.
C25_RecordStepsInOrder == []RecordOrder /\ [][RecordStep]_vars

\* the record after a disqualified one has been solved, with two kinds
C25_Witness ==
    /\ pc = "loop"
    /\ rec = MaxRecords
    /\ Len(regularization_list) = 2
    /\ path = [i \in 1..MaxRecords |-> IF i = 1 THEN "placeholder" ELSE "solved"]

\* ---------------------------------------------------------------- C26
\* the system of all samples of the call except sample i: the sums over
\* j # i of W_j a_j a_j^T and of W_j b_j a_j, and the searched kind's matrix
\* times its parameter
LeaveOneOutX(i) ==
    [k \in 1..nbasis |-> [l \in 1..nbasis |->
        SumTo([j \in 1..Len(gv.given.b0) |->
                 IF j = i THEN 0
                 ELSE gv.given.W0[j][1] * gv.given.A0[j][k] * gv.given.A0[j][l]],
              Len(gv.given.b0))
        + gv.p * gv.reg_matrices[gv.reg][k][l]]]
LeaveOneOuty(i) ==
    [k \in 1..nbasis |->
        <<SumTo([j \in 1..Len(gv.given.b0) |->
                   IF j = i THEN 0
                   ELSE gv.given.W0[j][1] * gv.given.b0[j][1] * gv.given.A0[j][k]],
                Len(gv.given.b0))>>]

\* C26: an evaluation of the GCV objective makes one refit per sample, in
\* the order of the samples: the coefficients of refit i are solved from
\* all samples except sample i, its residual term is (A_i.C - b_i)^2 * W_i
\* at sample i, the score is the sum of the terms of all samples, and A0,
\* b0 and W0 are left as they were given.
C26_GcvLeavesOneOut ==
    gv.pc \in {"loop", "returned"} =>
        /\ gv.A0 = gv.given.A0 /\ gv.b0 = gv.given.b0 /\ gv.W0 = gv.given.W0
        /\ gv.refits = gv.i
        /\ Len(gv.residuals) = gv.i
        /\ gv.i <= Len(gv.given.b0)
        /\ \A i \in 1..gv.i :
             gv.residuals[i] =
                [f |-> "(Ai.C-bi)^2*Wi", Ai |-> gv.given.A0[i], bi |-> gv.given.b0[i],
                 Wi |-> gv.given.W0[i],
                 C |-> [f |-> "lstsq", a |-> LeaveOneOutX(i), b |-> LeaveOneOuty(i)]]
        /\ gv.pc = "returned" =>
             /\ gv.refits = Len(gv.given.b0)
             /\ gv.score = [f |-> "sum", terms |-> gv.residuals]

\* an evaluation over MaxPoints different samples has returned, with two
\* kinds configured
C26_Witness ==
    /\ gv.pc = "returned"
    /\ Len(gv.given.b0) = MaxPoints
    /\ gv.given.A0[1] # gv.given.A0[2]
    /\ gv.given.W0[1] # gv.given.W0[2]
    /\ Len(regularization_list) = 2
    /\ gv.residuals[1].C # gv.residuals[2].C
====
